---- MODULE Spec2Model ----
(***************************************************************************)
(* Cookbook: the CSV recipe codec (app/services/csv_handler.py) and the    *)
(* quantity parser of the recipe form (app/routes/recipes.py).             *)
(*                                                                         *)
(* Text is a sequence of one-character strings.  Python's None is the      *)
(* one-element tuple None; a float is an exact rational <<num, den>> in    *)
(* lowest terms with den > 0.  An exception is a record [k |-> "exc"],     *)
(* a returned value a record [k |-> "ret"].                                *)
(***************************************************************************)
EXTENDS Integers, Sequences, FiniteSets, TLC

VARIABLES
    qtext,      \* parse_quantity: the argument
    qcsv,       \* outcome of services/csv_handler.parse_quantity(qtext)
    qform,      \* outcome of routes/recipes.parse_quantity(qtext)
    itext,      \* parse_single_ingredient / parse_ingredients: the argument
    ising,      \* outcome of parse_single_ingredient(itext)
    ilist,      \* outcome of parse_ingredients(itext)
    sIngr,      \* parse_sections: ingredients_str
    sInstr,     \* parse_sections: instructions_str
    sMarkers,   \* how the two arguments were written: the text before the first
                \* marker of ingredients_str, and the <<name, body>> pairs of both
    sres,       \* outcome of parse_sections(sIngr, sInstr)
    csvLines,   \* parse_recipe_csv: the lines of content after the header line
    csvPos,     \* how many of these lines the reader has consumed
    rowNum,     \* the next row_num of enumerate(reader, start=2)
    recipes,    \* parse_recipe_csv: recipes
    errors,     \* parse_recipe_csv: errors
    errLines,   \* for each entry of errors, the line of content it is about
    recLines,   \* for each entry of recipes, the line of content it comes from
    csvpc,      \* "loop" in the for loop, "done" returned, "raised" raised
    xCells,     \* round trip: the cells of the row that is imported
    xStored,    \* the recipes stored by the import
    xCsv,       \* what create_csv_export writes for xStored
    xAgain,     \* outcome of parse_recipe_csv on xCsv
    kQty,       \* conversion: quantity, or value of smart_round_metric
    kUnit,      \* conversion: unit
    toMetric,   \* outcome of convert_to_metric(kQty, kUnit)
    toUs,       \* outcome of convert_to_us(kQty, kUnit)
    smartRounded, \* outcome of smart_round_metric(kQty, kUnit)
    preview,    \* import session: the preview file of the session
    committed,  \* the recipes committed to the database
    flashed,    \* the messages flashed by the last request
    decoded,    \* outcome of parse_recipe_csv in the last upload
    lastOp,     \* the last request: "upload", "confirm" or "none"
    imported,   \* how many recipes the last request committed
    requests,   \* how many requests the session has made
    recipeTable, \* save_recipe: the committed recipes, recipeTable[id]
    saveRequest, \* save_recipe: the last request, its recipe id (0: new) and form
    saveFlashed, \* save_recipe: the message flashed by the last request
    confirms     \* concurrent confirm_import requests: confirms[r] is the position
                 \* of request r in the handler and what it loaded

qvars == <<qtext, qcsv, qform>>

ivars == <<itext, ising, ilist>>

svars == <<sIngr, sInstr, sMarkers, sres>>

cvars == <<csvLines, csvPos, rowNum, recipes, errors, errLines, recLines, csvpc>>

xvars == <<xCells, xStored, xCsv, xAgain>>

kvars == <<kQty, kUnit, toMetric, toUs, smartRounded>>

uvars == <<preview, committed, flashed, decoded, lastOp, imported, requests>>

vvars == <<recipeTable, saveRequest, saveFlashed>>

wvars == <<confirms>>

vars == <<qtext, qcsv, qform, itext, ising, ilist, sIngr, sInstr, sMarkers, sres,
          csvLines, csvPos, rowNum, recipes, errors, errLines, recLines, csvpc,
          xCells, xStored, xCsv, xAgain,
          kQty, kUnit, toMetric, toUs, smartRounded,
          preview, committed, flashed, decoded, lastOp, imported, requests,
          recipeTable, saveRequest, saveFlashed,
          confirms>>

----------------------------------------------------------------------------
(* Values *)

None == <<"None">>

Pending == [k |-> "pending"]

Ret(v) == [k |-> "ret", v |-> v]

Exc(e) == [k |-> "exc", v |-> <<e>>]

Pass == [k |-> "pass"]

----------------------------------------------------------------------------
(* Python str helpers *)

WS == {" ", "\t", "\n", "\r"}

Digits == <<"0", "1", "2", "3", "4", "5", "6", "7", "8", "9">>

UpperLetters == <<"A", "B", "C", "D", "E", "F", "G", "H", "I", "J", "K", "L", "M",
                  "N", "O", "P", "Q", "R", "S", "T", "U", "V", "W", "X", "Y", "Z">>

LowerLetters == <<"a", "b", "c", "d", "e", "f", "g", "h", "i", "j", "k", "l", "m",
                  "n", "o", "p", "q", "r", "s", "t", "u", "v", "w", "x", "y", "z">>

IsDigit(c) == \E i \in 1..10 : Digits[i] = c

DigitVal(c) == (CHOOSE i \in 1..10 : Digits[i] = c) - 1

LowerChar(c) ==
    IF \E i \in 1..26 : UpperLetters[i] = c
    THEN LowerLetters[CHOOSE i \in 1..26 : UpperLetters[i] = c]
    ELSE c

Lower(s) == [i \in 1..Len(s) |-> LowerChar(s[i])]

SetMin(S) == CHOOSE x \in S : \A y \in S : x <= y

SetMax(S) == CHOOSE x \in S : \A y \in S : x >= y

\* the indices of the characters of s that are not whitespace
NonBlank(s) == {i \in 1..Len(s) : s[i] \notin WS}

FirstOr(A, d) == IF A = {} THEN d ELSE SetMin(A)

LastOr(A, d) == IF A = {} THEN d ELSE SetMax(A)

\* str.strip()
Strip(s) == SubSeq(s, FirstOr(NonBlank(s), 1), LastOr(NonBlank(s), 0))

\* str.lstrip()
LStrip(s) == SubSeq(s, FirstOr(NonBlank(s), Len(s) + 1), Len(s))

\* str.rstrip()
RStrip(s) == SubSeq(s, 1, LastOr(NonBlank(s), 0))

\* c in s
HasChar(s, c) == \E i \in 1..Len(s) : s[i] = c

\* sub occurs in s at index i
OccursAt(s, sub, i) ==
    /\ i >= 1
    /\ i + Len(sub) - 1 <= Len(s)
    /\ \A j \in 1..Len(sub) : s[i + j - 1] = sub[j]

\* sub in s
Contains(s, sub) == \E i \in 1..(Len(s) + 1) : OccursAt(s, sub, i)

\* str.split(c): the pieces between the occurrences of the character c
RECURSIVE SplitOn(_, _)
SplitOn(s, c) ==
    IF ~HasChar(s, c) THEN <<s>>
    ELSE LET i == SetMin({j \in 1..Len(s) : s[j] = c})
         IN  <<SubSeq(s, 1, i - 1)>> \o SplitOn(SubSeq(s, i + 1, Len(s)), c)

\* str.split(c, 1)
SplitOnce(s, c) ==
    LET i == SetMin({j \in 1..Len(s) : s[j] = c})
    IN  <<SubSeq(s, 1, i - 1), SubSeq(s, i + 1, Len(s))>>

\* str.split(): the words between runs of whitespace, none of them empty
RECURSIVE SplitWords(_)
SplitWords(s) ==
    LET t == LStrip(s)
    IN  IF t = <<>> THEN <<>>
        ELSE LET ws == {j \in 1..Len(t) : t[j] \in WS}
                 e == IF ws = {} THEN Len(t) + 1 ELSE SetMin(ws)
             IN  <<SubSeq(t, 1, e - 1)>> \o SplitWords(SubSeq(t, e, Len(t)))

----------------------------------------------------------------------------
(* Python float: exact rationals *)

RECURSIVE GCD(_, _)
GCD(a, b) == IF b = 0 THEN a ELSE GCD(b, a % b)

Rat(n, d) == LET g == GCD(n, d) IN <<n \div g, d \div g>>

RatAdd(x, y) == Rat(x[1] * y[2] + y[1] * x[2], x[2] * y[2])

RECURSIVE Pow10(_)
Pow10(k) == IF k = 0 THEN 1 ELSE 10 * Pow10(k - 1)

RECURSIVE DigitsVal(_)
DigitsVal(s) ==
    IF s = <<>> THEN 0
    ELSE 10 * DigitsVal(SubSeq(s, 1, Len(s) - 1)) + DigitVal(s[Len(s)])

\* float(t) for trimmed text made of digits, "." and characters that start no
\* float literal: the outcome is a value or ValueError.
PyFloatOf(t) ==
    LET dots == {i \in 1..Len(t) : t[i] = "."}
        d == FirstOr(dots, Len(t) + 1)
    IN  IF /\ \A i \in 1..Len(t) : IsDigit(t[i]) \/ t[i] = "."
           /\ Cardinality(dots) <= 1
           /\ \E i \in 1..Len(t) : IsDigit(t[i])
        THEN Ret(Rat(DigitsVal(SubSeq(t, 1, d - 1) \o SubSeq(t, d + 1, Len(t))),
                     Pow10(IF dots = {} THEN 0 ELSE Len(t) - d)))
        ELSE Exc("ValueError")

\* float(s): whitespace around the literal is ignored
PyFloat(s) == PyFloatOf(Strip(s))

\* x / y on floats
PyDiv(x, y) ==
    IF y[1] = 0 THEN Exc("ZeroDivisionError")
    ELSE Ret(Rat(x[1] * y[2], x[2] * y[1]))

----------------------------------------------------------------------------
(* parse_quantity *)

\* try: body / except <caught>: pass
Try(body, caught) ==
    IF body.k = "exc" /\ body.v[1] \in caught THEN Pass ELSE body

\* the first statement of a sequence that returns or raises decides it
OrElse(first, rest) == IF first.k = "pass" THEN rest ELSE first

\* d.get(key, default) / key in d, for a dict written as a sequence of <<key, value>>
DictHas(d, key) == \E i \in 1..Len(d) : d[i][1] = key

DictGet(d, key, default) ==
    IF DictHas(d, key) THEN d[CHOOSE i \in 1..Len(d) : d[i][1] = key][2] ELSE default

\* float(num) / float(denom), the operands evaluated left to right
Divide(num, denom) ==
    IF num.k = "exc" THEN num
    ELSE IF denom.k = "exc" THEN denom
    ELSE PyDiv(num.v, denom.v)

\* num, denom = pieces
UnpackAndDivide(pieces) ==
    IF Len(pieces) # 2 THEN Exc("ValueError")
    ELSE Divide(PyFloat(pieces[1]), PyFloat(pieces[2]))

\* num, denom = s.split('/'); float(num) / float(denom)
QuotientOf(s) == UnpackAndDivide(SplitOn(s, "/"))

\* a fraction table without the thirds: 1/3 and 2/3 fall to the a/b branch
FractionMapWithoutThirds ==
    << <<<<"1", "/", "8">>, <<1, 8>> >>, <<<<"1", "/", "4">>, <<1, 4>> >>, <<<<"3", "/", "8">>, <<3, 8>> >>,
       <<<<"1", "/", "2">>, <<1, 2>> >>, <<<<"5", "/", "8">>, <<5, 8>> >>, <<<<"3", "/", "4">>, <<3, 4>> >>,
       <<<<"7", "/", "8">>, <<7, 8>> >> >>

\* services/csv_handler.py: fraction_map
CsvFractionMap ==
    << <<<<"1", "/", "8">>, <<1, 8>> >>, <<<<"1", "/", "4">>, <<1, 4>> >>, <<<<"1", "/", "3">>, <<33, 100>> >>,
       <<<<"3", "/", "8">>, <<3, 8>> >>, <<<<"1", "/", "2">>, <<1, 2>> >>, <<<<"5", "/", "8">>, <<5, 8>> >>,
       <<<<"2", "/", "3">>, <<67, 100>> >>, <<<<"3", "/", "4">>, <<3, 4>> >>, <<<<"7", "/", "8">>, <<7, 8>> >> >>

\* an except clause that forgets ZeroDivisionError
CaughtValueErrorOnly == {"ValueError"}

\* services/csv_handler.py: the exceptions the two fraction branches catch
CsvFractionCaught == {"ValueError", "ZeroDivisionError"}

\* services/csv_handler.py: fraction = fraction_map.get(parts[1], 0), and the
\* custom fraction when that is 0 and the word has a "/"
CsvFractionOf(named, word) ==
    IF named[1] = 0 /\ HasChar(word, "/") THEN QuotientOf(word) ELSE Ret(named)

\* whole + fraction, whole evaluated first
AddFraction(whole, fraction) ==
    IF whole.k = "exc" THEN whole
    ELSE IF fraction.k = "exc" THEN fraction
    ELSE Ret(RatAdd(whole.v, fraction.v))

\* services/csv_handler.py: the mixed-number branch, "1 1/2"
CsvMixedNumber(parts) ==
    Try(AddFraction(PyFloat(parts[1]),
                    CsvFractionOf(DictGet(CsvFractionMap, parts[2], <<0, 1>>), parts[2])),
        CsvFractionCaught)

\* services/csv_handler.py: the "a/b" branch
CsvSimpleQuotient(value) == Try(QuotientOf(value), CsvFractionCaught)

\* try: return float(value) / except ValueError: return None
FloatOrNone(f) == IF f.k = "exc" /\ f.v[1] = "ValueError" THEN Ret(None) ELSE f

\* services/csv_handler.py: parse_quantity after value = value.strip() and
\* parts = value.split()
CsvParseStripped(value, parts) ==
    OrElse(IF Len(parts) = 2 THEN CsvMixedNumber(parts) ELSE Pass,
    OrElse(IF DictHas(CsvFractionMap, value)
           THEN Ret(DictGet(CsvFractionMap, value, None)) ELSE Pass,
    OrElse(IF HasChar(value, "/") THEN CsvSimpleQuotient(value) ELSE Pass,
           FloatOrNone(PyFloat(value)))))

CsvParseValue(value) == CsvParseStripped(value, SplitWords(value))

\* services/csv_handler.py: parse_quantity; the outcome is Ret(number), Ret(None)
\* or an exception that leaves the function
CsvParseQuantity(arg) ==
    IF arg = <<>> \/ arg = None THEN Ret(None) ELSE CsvParseValue(Strip(arg))

\* routes/recipes.py: fraction_map
FormFractionMap ==
    << <<<<"1", "/", "4">>, <<1, 4>> >>, <<<<"1", "/", "3">>, <<33, 100>> >>, <<<<"1", "/", "2">>, <<1, 2>> >>,
       <<<<"2", "/", "3">>, <<67, 100>> >>, <<<<"3", "/", "4">>, <<3, 4>> >> >>

\* routes/recipes.py: the mixed-number branch
FormMixedNumber(parts) ==
    Try(AddFraction(PyFloat(parts[1]),
                    Ret(DictGet(FormFractionMap, parts[2], <<0, 1>>))),
        {"ValueError"})

\* routes/recipes.py: parse_quantity after value = value.strip() and
\* parts = value.split()
FormParseStripped(value, parts) ==
    OrElse(IF Len(parts) = 2 THEN FormMixedNumber(parts) ELSE Pass,
    OrElse(IF DictHas(FormFractionMap, value)
           THEN Ret(DictGet(FormFractionMap, value, None)) ELSE Pass,
           FloatOrNone(PyFloat(value))))

FormParseValue(value) == FormParseStripped(value, SplitWords(value))

\* routes/recipes.py: parse_quantity
FormParseQuantity(arg) ==
    IF arg = <<>> \/ arg = None THEN Ret(None) ELSE FormParseValue(Strip(arg))

----------------------------------------------------------------------------
(* parse_single_ingredient, parse_ingredients *)

OptionalMarker == <<"(", "o", "p", "t", "i", "o", "n", "a", "l", ")">>

\* re.sub(r'\s*\(optional\)\s*', '', text, flags=re.IGNORECASE): every match,
\* leftmost first, goes with the whitespace around it
RECURSIVE SubOptional(_)
SubOptional(s) ==
    LET low == Lower(s)
        occ == {i \in 1..Len(s) : OccursAt(low, OptionalMarker, i)}
    IN  IF occ = {} THEN s
        ELSE LET k == SetMin(occ)
             IN  RStrip(SubSeq(s, 1, k - 1))
                    \o SubOptional(LStrip(SubSeq(s, k + Len(OptionalMarker), Len(s))))

\* services/csv_handler.py: units, in the order of the list
Units ==
    << <<"c", "u", "p", "s">>,
       <<"c", "u", "p">>,
       <<"t", "a", "b", "l", "e", "s", "p", "o", "o", "n", "s">>,
       <<"t", "a", "b", "l", "e", "s", "p", "o", "o", "n">>,
       <<"t", "b", "s", "p">>,
       <<"t", "e", "a", "s", "p", "o", "o", "n", "s">>,
       <<"t", "e", "a", "s", "p", "o", "o", "n">>,
       <<"t", "s", "p">>,
       <<"o", "u", "n", "c", "e", "s">>,
       <<"o", "u", "n", "c", "e">>,
       <<"o", "z">>,
       <<"p", "o", "u", "n", "d", "s">>,
       <<"p", "o", "u", "n", "d">>,
       <<"l", "b">>,
       <<"l", "b", "s">>,
       <<"g", "r", "a", "m", "s">>,
       <<"g", "r", "a", "m">>,
       <<"g">>,
       <<"k", "i", "l", "o", "g", "r", "a", "m", "s">>,
       <<"k", "i", "l", "o", "g", "r", "a", "m">>,
       <<"k", "g">>,
       <<"m", "i", "l", "l", "i", "l", "i", "t", "e", "r", "s">>,
       <<"m", "i", "l", "l", "i", "l", "i", "t", "e", "r">>,
       <<"m", "l">>,
       <<"l", "i", "t", "e", "r", "s">>,
       <<"l", "i", "t", "e", "r">>,
       <<"L">>,
       <<"p", "i", "n", "c", "h">>,
       <<"d", "a", "s", "h">>,
       <<"c", "l", "o", "v", "e", "s">>,
       <<"c", "l", "o", "v", "e">>,
       <<"h", "e", "a", "d", "s">>,
       <<"h", "e", "a", "d">>,
       <<"s", "l", "i", "c", "e", "s">>,
       <<"s", "l", "i", "c", "e">>,
       <<"p", "i", "e", "c", "e", "s">>,
       <<"p", "i", "e", "c", "e">>,
       <<"c", "a", "n", "s">>,
       <<"c", "a", "n">>,
       <<"p", "a", "c", "k", "a", "g", "e", "s">>,
       <<"p", "a", "c", "k", "a", "g", "e">>,
       <<"p", "k", "g">>,
       <<"b", "u", "n", "c", "h", "e", "s">>,
       <<"b", "u", "n", "c", "h">>,
       <<"s", "p", "r", "i", "g", "s">>,
       <<"s", "p", "r", "i", "g">>,
       <<"s", "t", "a", "l", "k", "s">>,
       <<"s", "t", "a", "l", "k">>,
       <<"l", "a", "r", "g", "e">>,
       <<"m", "e", "d", "i", "u", "m">>,
       <<"s", "m", "a", "l", "l">> >>

\* the units as re.IGNORECASE compares them
LowerUnits == [u \in 1..Len(Units) |-> Lower(Units[u])]

\* the character class [\d\s./]
InQuantityClass(c) == IsDigit(c) \/ c \in WS \/ c = "." \/ c = "/"

\* re.match(r'^([\d\s./]+)?\s*(<units>)?\s+(.+)$', text, re.IGNORECASE): the
\* groups of the match the backtracking search finds first, or NoMatch.  The
\* quantity group is tried longest first and absent last, \s* longest first,
\* the units in list order and absent last, \s+ longest first.
NoMatch == [k |-> "nomatch"]

IngredientMatchWith(units, text) ==
    \* units: the alternatives in lower case, as re.IGNORECASE compares them
    LET n == Len(text)
        low == Lower(text)
        \* the number of whitespace characters from position p on
        WsRun(p) == SetMax({k \in 0..(n - p + 1) : \A i \in p..(p + k - 1) : text[i] \in WS})
        \* $ is the end of the text, or the place before a closing newline
        End == IF n >= 1 /\ text[n] = "\n" THEN {n, n - 1} ELSE {n}
        \* \s+(.+)$ from position p: the places where the name can start
        NameStarts(p) ==
            {s \in (p + 1)..(p + WsRun(p)) :
                \E e \in End : /\ s <= e
                               /\ \A i \in s..e : text[i] # "\n"}
        TailOk(p) == p <= n /\ NameStarts(p) # {}
        NameFrom(p) ==
            LET s == SetMax(NameStarts(p))
                e == SetMax({x \in End : s <= x /\ \A i \in s..x : text[i] # "\n"})
            IN  SubSeq(text, s, e)
        \* the unit alternatives that lead to a match at position q; NoUnit is
        \* the alternative without the group
        NoUnit == Len(units) + 1
        UnitsAt(q) ==
            {u \in 1..Len(units) :
                OccursAt(low, units[u], q) /\ TailOk(q + Len(units[u]))}
                \cup (IF TailOk(q) THEN {NoUnit} ELSE {})
        \* the longest quantity group: the class characters the text starts with
        P == SetMax({k \in 0..n : \A i \in 1..k : InQuantityClass(text[i])})
        Found == UNION {{<<g, w>> : w \in {x \in 0..WsRun(g + 1) : UnitsAt(g + x + 1) # {}}} :
                        g \in 0..P}
    IN  IF Found = {} THEN NoMatch
        ELSE LET g == SetMax({gw[1] : gw \in Found})
                 w == SetMax({gw[2] : gw \in {x \in Found : x[1] = g}})
                 q == g + w + 1
                 u == SetMin(UnitsAt(q))
                 after == IF u = NoUnit THEN q ELSE q + Len(units[u])
             IN  [k |-> "match",
                  quantity_str |-> IF g = 0 THEN None ELSE SubSeq(text, 1, g),
                  unit |-> IF u = NoUnit THEN None ELSE SubSeq(text, q, after - 1),
                  name |-> NameFrom(after)]

\* services/csv_handler.py: the match with the units in the order of the list
IngredientMatch(text) == IngredientMatchWith(LowerUnits, text)

\* the captured unit kept as written
UnitAsWritten(unit) == unit

\* the captured unit cut to the first unit of the list that it starts with
UnitCut(unit) ==
    LowerUnits[SetMin({u \in 1..Len(LowerUnits) : OccursAt(Lower(unit), LowerUnits[u], 1)})]

\* services/csv_handler.py: result['unit'] = unit.lower()
UnitOf(unit) == Lower(unit)

\* services/csv_handler.py: the result dictionary
IngredientResult(quantity, unit, name, preparation, is_optional) ==
    IF quantity.k = "exc" THEN quantity
    ELSE Ret([quantity |-> quantity.v, unit |-> unit, name |-> name,
              preparation |-> preparation, is_optional |-> is_optional])

\* a parser that keeps only the first word when the pattern does not match
AfterMatchFirstWord(text, m, preparation, is_optional) ==
    IF m.k = "match"
    THEN IngredientResult(
            IF m.quantity_str # None /\ m.quantity_str # <<>>
            THEN CsvParseQuantity(Strip(m.quantity_str)) ELSE Ret(None),
            IF m.unit # None THEN Lower(m.unit) ELSE None,
            Strip(m.name), preparation, is_optional)
    ELSE IngredientResult(Ret(None), None,
                          IF text = <<>> THEN text ELSE SplitWords(text)[1],
                          preparation, is_optional)

\* services/csv_handler.py: parse_single_ingredient from the match on
AfterMatch(text, m, preparation, is_optional) ==
    IF m.k = "match"
    THEN IngredientResult(
            IF m.quantity_str # None /\ m.quantity_str # <<>>
            THEN CsvParseQuantity(Strip(m.quantity_str)) ELSE Ret(None),
            IF m.unit # None THEN UnitOf(m.unit) ELSE None,
            Strip(m.name), preparation, is_optional)
    ELSE IngredientResult(Ret(None), None, text, preparation, is_optional)

\* services/csv_handler.py: parse_single_ingredient from the comma on
AfterComma(text, preparation, is_optional) ==
    AfterMatch(text, IngredientMatch(text), preparation, is_optional)

\* services/csv_handler.py: parts = text.split(',', 1)
SplitAtComma(parts, is_optional) ==
    AfterComma(Strip(parts[1]), Strip(parts[2]), is_optional)

\* services/csv_handler.py: parse_single_ingredient from the marker on
AfterOptional(text, is_optional) ==
    IF HasChar(text, ",")
    THEN SplitAtComma(SplitOnce(text, ","), is_optional)
    ELSE AfterComma(text, None, is_optional)

\* services/csv_handler.py: the "(optional)" check of the trimmed text
CheckOptional(text, is_optional) ==
    AfterOptional(IF is_optional THEN SubOptional(text) ELSE text, is_optional)

ParseTrimmed(text) == CheckOptional(text, Contains(Lower(text), OptionalMarker))

\* services/csv_handler.py: parse_single_ingredient
ParseSingleIngredient(arg) == ParseTrimmed(Strip(arg))

\* ingredients.append(parsed), unless parsing the item or a later one raised
Prepend(parsed, rest) ==
    IF parsed.k = "exc" THEN parsed
    ELSE IF rest.k = "exc" THEN rest
    ELSE Ret(<<parsed.v>> \o rest.v)

\* services/csv_handler.py: parse_ingredients, the loop over the items
RECURSIVE ParseItems(_)
ParseItem(item, others) ==
    IF item = <<>> THEN ParseItems(others)
    ELSE Prepend(ParseSingleIngredient(item), ParseItems(others))

ParseItems(items) ==
    IF items = <<>> THEN Ret(<<>>) ELSE ParseItem(Strip(Head(items)), Tail(items))

\* services/csv_handler.py: parse_ingredients
ParseIngredients(ingredient_string) ==
    IF ingredient_string = <<>> \/ ingredient_string = None THEN Ret(<<>>)
    ELSE ParseItems(SplitOn(ingredient_string, "|"))

----------------------------------------------------------------------------
(* parse_sections *)

\* the places where r'\[([^\]]+)\]' matches: a "[", at least one character
\* that is not "]", and the first "]" after them
MarkerStarts(s) ==
    {i \in 1..Len(s) : /\ s[i] = "["
                       /\ i + 1 <= Len(s) /\ s[i + 1] # "]"
                       /\ \E j \in (i + 2)..Len(s) : s[j] = "]"}

\* the "]" that closes the marker starting at i
MarkerEnd(s, i) == SetMin({j \in (i + 2)..Len(s) : s[j] = "]"})

\* re.split(r'\[([^\]]+)\]', s) without its first element: the
\* <<section name, text up to the next marker>> pairs, left to right
RECURSIVE SectionPairs(_)
PairAt(s, i, j, rest) ==
    << <<SubSeq(s, i + 1, j - 1),
         SubSeq(rest, 1, FirstOr(MarkerStarts(rest), Len(rest) + 1) - 1)>> >>
        \o SectionPairs(rest)

MarkerAt(s, i) == PairAt(s, i, MarkerEnd(s, i), SubSeq(s, MarkerEnd(s, i) + 1, Len(s)))

SectionPairs(s) ==
    IF MarkerStarts(s) = {} THEN <<>> ELSE MarkerAt(s, SetMin(MarkerStarts(s)))

\* re.search(r'\[.+?\]', s): a "[", at least one character that is not a
\* newline, and a "]"
HasMarker(s) ==
    \E i \in 1..Len(s) : \E j \in (i + 2)..Len(s) :
        /\ s[i] = "[" /\ s[j] = "]"
        /\ \A x \in (i + 1)..(j - 1) : s[x] # "\n"

HasSection(sections, name) == \E i \in 1..Len(sections) : sections[i].name = name

SectionIndex(sections, name) == CHOOSE i \in 1..Len(sections) : sections[i].name = name

\* a new section goes in front of the others
InsertFirst(sections, name) ==
    IF HasSection(sections, name) THEN sections
    ELSE <<[name |-> name, ingredients |-> <<>>, instructions |-> <<>>]>> \o sections

\* services/csv_handler.py: if section_name not in sections: sections[section_name] = {...}
Ensure(sections, name) ==
    IF HasSection(sections, name) THEN sections
    ELSE Append(sections, [name |-> name, ingredients |-> <<>>, instructions |-> <<>>])

\* sections[section_name]['ingredients'] = ...
SetIngredients(sections, name, v) ==
    [sections EXCEPT ![SectionIndex(sections, name)].ingredients = v]

\* sections[section_name]['instructions'] = ...
SetInstructions(sections, name, v) ==
    [sections EXCEPT ![SectionIndex(sections, name)].instructions = v]

\* services/csv_handler.py: parse_sections, the loop over the ingredients
RECURSIVE IngredientsPass(_, _)
IngredientsStep(sections, name, parsed, others) ==
    IF parsed.k = "exc" THEN parsed
    ELSE IngredientsPass(SetIngredients(Ensure(sections, name), name, parsed.v), others)

IngredientsPass(sections, pairs) ==
    IF pairs = <<>> THEN Ret(sections)
    ELSE IngredientsStep(sections, Strip(pairs[1][1]), ParseIngredients(pairs[1][2]),
                         Tail(pairs))

\* services/csv_handler.py: parse_sections, the loop over the instructions
RECURSIVE InstructionsPass(_, _)
InstructionsPass(sections, pairs) ==
    IF pairs = <<>> THEN sections
    ELSE InstructionsPass(
            SetInstructions(Ensure(sections, Strip(pairs[1][1])), Strip(pairs[1][1]),
                            Strip(pairs[1][2])),
            Tail(pairs))

\* every section is kept
KeepEverySection(s) == TRUE

\* services/csv_handler.py: [s for s in sections.values() if s['instructions']]
KeepSection(s) == s.instructions # <<>>

\* services/csv_handler.py: parse_sections from the instructions on
FinishSections(built, instructions_str) ==
    IF built.k = "exc" THEN built
    ELSE Ret(SelectSeq(
            IF instructions_str = <<>> \/ instructions_str = None THEN built.v
            ELSE InstructionsPass(built.v, SectionPairs(instructions_str)),
            KeepSection))

\* services/csv_handler.py: parse_sections
ParseSections(ingredients_str, instructions_str) ==
    FinishSections(
        IF ingredients_str = <<>> \/ ingredients_str = None THEN Ret(<<>>)
        ELSE IngredientsPass(<<>>, SectionPairs(ingredients_str)),
        instructions_str)

----------------------------------------------------------------------------
(* services/conversion.py *)

RatMul(x, y) == Rat(x[1] * y[1], x[2] * y[2])

RatLeq(x, y) == x[1] * y[2] <= y[1] * x[2]

\* A float that is exactly the rational it stands for
Dyadic(x) == x[2] \in {2 ^ k : k \in 0..20}

\* Python's round: half to even on the double.  x is exact here; when the
\* double is only the one nearest to x, a value half way between two results
\* can go to either
RoundedAt(floor, twice, scale, exact) ==
    IF twice < scale THEN {floor}
    ELSE IF twice > scale THEN {floor + 1}
    ELSE IF exact THEN {IF floor % 2 = 0 THEN floor ELSE floor + 1}
    ELSE {floor, floor + 1}

\* round(x, k), with tenth = 10^k
RoundChoices(x, tenth, exact) ==
    {Rat(m, tenth) :
        m \in RoundedAt((x[1] \div x[2]) * tenth + (((x[1] % x[2]) * tenth) \div x[2]),
                        2 * (((x[1] % x[2]) * tenth) % x[2]), x[2], exact)}

\* round(x / 5) * 5
RoundToFives(x, exact) ==
    {<<5 * m, 1>> :
        m \in RoundedAt(x[1] \div (5 * x[2]), 2 * (x[1] % (5 * x[2])), 5 * x[2], exact)}

\* US to Metric conversion factors
Conversions ==
    << <<<<"c", "u", "p">>, <<<<"m", "l">>, <<59147, 250>>>> >>,
       <<<<"c", "u", "p", "s">>, <<<<"m", "l">>, <<59147, 250>>>> >>,
       <<<<"t", "b", "s", "p">>, <<<<"m", "l">>, <<14787, 1000>>>> >>,
       <<<<"t", "a", "b", "l", "e", "s", "p", "o", "o", "n">>, <<<<"m", "l">>, <<14787, 1000>>>> >>,
       <<<<"t", "a", "b", "l", "e", "s", "p", "o", "o", "n", "s">>, <<<<"m", "l">>, <<14787, 1000>>>> >>,
       <<<<"t", "s", "p">>, <<<<"m", "l">>, <<4929, 1000>>>> >>,
       <<<<"t", "e", "a", "s", "p", "o", "o", "n">>, <<<<"m", "l">>, <<4929, 1000>>>> >>,
       <<<<"t", "e", "a", "s", "p", "o", "o", "n", "s">>, <<<<"m", "l">>, <<4929, 1000>>>> >>,
       <<<<"f", "l", " ", "o", "z">>, <<<<"m", "l">>, <<14787, 500>>>> >>,
       <<<<"f", "l", "u", "i", "d", " ", "o", "u", "n", "c", "e">>, <<<<"m", "l">>, <<14787, 500>>>> >>,
       <<<<"f", "l", "u", "i", "d", " ", "o", "u", "n", "c", "e", "s">>, <<<<"m", "l">>, <<14787, 500>>>> >>,
       <<<<"q", "u", "a", "r", "t">>, <<<<"L">>, <<473, 500>>>> >>,
       <<<<"q", "u", "a", "r", "t", "s">>, <<<<"L">>, <<473, 500>>>> >>,
       <<<<"g", "a", "l", "l", "o", "n">>, <<<<"L">>, <<757, 200>>>> >>,
       <<<<"g", "a", "l", "l", "o", "n", "s">>, <<<<"L">>, <<757, 200>>>> >>,
       <<<<"p", "i", "n", "t">>, <<<<"m", "l">>, <<59147, 125>>>> >>,
       <<<<"p", "i", "n", "t", "s">>, <<<<"m", "l">>, <<59147, 125>>>> >>,
       <<<<"o", "z">>, <<<<"g">>, <<56699, 2000>>>> >>,
       <<<<"o", "u", "n", "c", "e">>, <<<<"g">>, <<56699, 2000>>>> >>,
       <<<<"o", "u", "n", "c", "e", "s">>, <<<<"g">>, <<56699, 2000>>>> >>,
       <<<<"l", "b">>, <<<<"g">>, <<56699, 125>>>> >>,
       <<<<"l", "b", "s">>, <<<<"g">>, <<56699, 125>>>> >>,
       <<<<"p", "o", "u", "n", "d">>, <<<<"g">>, <<56699, 125>>>> >>,
       <<<<"p", "o", "u", "n", "d", "s">>, <<<<"g">>, <<56699, 125>>>> >>,
       <<<<"i", "n", "c", "h">>, <<<<"c", "m">>, <<127, 50>>>> >>,
       <<<<"i", "n", "c", "h", "e", "s">>, <<<<"c", "m">>, <<127, 50>>>> >>,
       <<<<"i", "n">>, <<<<"c", "m">>, <<127, 50>>>> >> >>

\* Metric to US conversion (reverse)
MetricToUs ==
    << <<<<"m", "l">>, <<<<"t", "s", "p">>, <<203, 1000>>>> >>,
       <<<<"L">>, <<<<"q", "u", "a", "r", "t">>, <<1057, 1000>>>> >>,
       <<<<"g">>, <<<<"o", "z">>, <<353, 10000>>>> >>,
       <<<<"k", "g">>, <<<<"l", "b">>, <<441, 200>>>> >>,
       <<<<"c", "m">>, <<<<"i", "n", "c", "h">>, <<197, 500>>>> >> >>

\* Smart rounding thresholds for metric
MetricRoundValues ==
    << <<<<"m", "l">>, <<<<5, 1>>, <<10, 1>>, <<15, 1>>, <<25, 1>>, <<50, 1>>, <<75, 1>>, <<100, 1>>, <<125, 1>>, <<150, 1>>, <<175, 1>>, <<200, 1>>, <<250, 1>>, <<300, 1>>, <<350, 1>>, <<400, 1>>, <<450, 1>>, <<500, 1>>, <<750, 1>>, <<1000, 1>>>> >>,
       <<<<"g">>, <<<<5, 1>>, <<10, 1>>, <<15, 1>>, <<25, 1>>, <<50, 1>>, <<75, 1>>, <<100, 1>>, <<125, 1>>, <<150, 1>>, <<175, 1>>, <<200, 1>>, <<225, 1>>, <<250, 1>>, <<300, 1>>, <<350, 1>>, <<400, 1>>, <<450, 1>>, <<500, 1>>, <<750, 1>>, <<1000, 1>>>> >>,
       <<<<"L">>, <<<<1, 4>>, <<1, 2>>, <<3, 4>>, <<1, 1>>, <<3, 2>>, <<2, 1>>, <<5, 2>>, <<3, 1>>, <<4, 1>>, <<5, 1>>>> >>,
       <<<<"c", "m">>, <<<<1, 1>>, <<2, 1>>, <<5, 2>>, <<3, 1>>, <<4, 1>>, <<5, 1>>, <<6, 1>>, <<7, 1>>, <<8, 1>>, <<9, 1>>, <<10, 1>>, <<12, 1>>, <<15, 1>>, <<20, 1>>, <<25, 1>>, <<30, 1>>>> >> >>

Abs(n) == IF n < 0 THEN 0 - n ELSE n

\* abs(t - value) <= abs(s - value), both sides times the three denominators
NoFarther(t, s, value) ==
    Abs(t[1] * s[2] * value[2] - value[1] * t[2] * s[2])
        <= Abs(s[1] * t[2] * value[2] - value[1] * s[2] * t[2])

Closest(thresholds, value) ==
    {j \in 1..Len(thresholds) :
        \A k \in 1..Len(thresholds) : NoFarther(thresholds[j], thresholds[k], value)}

\* min(thresholds, key=lambda x: abs(x - value)): the first of the closest
\* thresholds; when two are equally close and the double is not exact, the
\* double decides
ClosestChoices(thresholds, value, exact) ==
    {thresholds[i] : i \in IF exact THEN {SetMin(Closest(thresholds, value))}
                            ELSE Closest(thresholds, value)}

\* services/conversion.py: smart_round_metric, after the threshold test failed
CoarseRound(value, exact) ==
    IF RatLeq(<<100, 1>>, value) THEN RoundToFives(value, exact)
    ELSE IF RatLeq(<<10, 1>>, value) THEN RoundChoices(value, 1, exact)
    ELSE RoundChoices(value, 10, exact)

\* a test that snaps within 20%
WithinTwenty(closest, value) ==
    value[1] < 0 \/ 5 * Abs(closest[1] * value[2] - value[1] * closest[2])
                        <= value[1] * closest[2]

\* abs(closest - value) / value <= 0.15, for value # 0
WithinFifteen(closest, value) ==
    value[1] < 0 \/ 20 * Abs(closest[1] * value[2] - value[1] * closest[2])
                        <= 3 * value[1] * closest[2]

SnapOrRound(closest, value, exact) ==
    IF WithinFifteen(closest, value) THEN {Ret(closest)}
    ELSE {Ret(r) : r \in CoarseRound(value, exact)}

\* smart_round_metric on the double nearest to value, the possible outcomes
SmartRound(value, unit, exact) ==
    IF ~DictHas(MetricRoundValues, unit) THEN {Ret(r) : r \in RoundChoices(value, 10, exact)}
    ELSE IF value[1] = 0 THEN {Exc("ZeroDivisionError")}
    ELSE UNION {SnapOrRound(c, value, exact) :
                   c \in ClosestChoices(DictGet(MetricRoundValues, unit, <<>>), value, exact)}

\* services/conversion.py: smart_round_metric
SmartRoundMetric(value, unit) ==
    IF value = None THEN {Exc("TypeError")}
    ELSE SmartRound(value, unit, Dyadic(value))

\* unit.lower() if unit else ''
UnitLower(unit) == IF unit = None \/ unit = <<>> THEN <<>> ELSE Lower(unit)

\* (converted, metric_unit), or the exception of smart_round_metric
MetricResults(rounded, metric_unit) ==
    {IF r.k = "ret" THEN Ret(<<r.v, metric_unit>>) ELSE r : r \in rounded}

\* a conversion that rounds to two decimal places instead
ToMetricUnrounded(quantity, entry) ==
    {Ret(<<r, entry[1]>>) : r \in RoundChoices(RatMul(quantity, entry[2]), 100, FALSE)}

\* quantity * factor is a rounded product: never taken as exact
ToMetricWith(quantity, entry) ==
    MetricResults(SmartRound(RatMul(quantity, entry[2]), entry[1], FALSE), entry[1])

\* a conversion that hands back the unit in lower case
ConvertToMetricLowered(quantity, unit) ==
    IF quantity = None THEN {Ret(<<None, unit>>)}
    ELSE IF ~DictHas(Conversions, UnitLower(unit)) THEN {Ret(<<quantity, UnitLower(unit)>>)}
    ELSE ToMetricWith(quantity, DictGet(Conversions, UnitLower(unit), <<>>))

\* services/conversion.py: convert_to_metric, the possible outcomes
ConvertToMetric(quantity, unit) ==
    IF quantity = None THEN {Ret(<<None, unit>>)}
    ELSE IF ~DictHas(Conversions, UnitLower(unit)) THEN {Ret(<<quantity, unit>>)}
    ELSE ToMetricWith(quantity, DictGet(Conversions, UnitLower(unit), <<>>))

ToUsWith(quantity, entry) ==
    {Ret(<<r, entry[1]>>) : r \in RoundChoices(RatMul(quantity, entry[2]), 100, FALSE)}

\* services/conversion.py: convert_to_us, the possible outcomes
ConvertToUs(quantity, unit) ==
    IF quantity = None THEN {Ret(<<None, unit>>)}
    ELSE IF ~DictHas(MetricToUs, UnitLower(unit)) THEN {Ret(<<quantity, unit>>)}
    ELSE ToUsWith(quantity, DictGet(MetricToUs, UnitLower(unit), <<>>))

----------------------------------------------------------------------------
(* The quantity parsers applied to a bounded set of tokens *)

\* an argument is made of at most MaxQtyTokens of these pieces
MaxQtyTokens == 3

QtyTokens ==
    { <<"1", "/", "8">>, <<"1", "/", "4">>, <<"1", "/", "3">>, <<"3", "/", "8">>, <<"1", "/", "2">>, <<"5", "/", "8">>, <<"2", "/", "3">>, <<"3", "/", "4">>, <<"7", "/", "8">>,
      <<"1">>, <<"2">>, <<"0">>, <<"/">>, <<" ">>, <<".">>, <<"a">> }

RECURSIVE Concats(_, _)
Concats(T, n) ==
    IF n = 0 THEN {<<>>}
    ELSE LET shorter == Concats(T, n - 1)
         IN  shorter \cup {s \o t : s \in shorter, t \in T}

QtyInputs == Concats(QtyTokens, MaxQtyTokens)

QIdle == qtext = <<>> /\ qcsv = Pending /\ qform = Pending

IIdle == itext = <<>> /\ ising = Pending /\ ilist = Pending

SIdle == sIngr = <<>> /\ sInstr = <<>> /\ sMarkers = <<>> /\ sres = Pending

XIdle == xCells = <<>> /\ xStored = Pending /\ xCsv = Pending /\ xAgain = Pending

KIdle ==
    /\ kQty = None /\ kUnit = None
    /\ toMetric = Pending /\ toUs = Pending /\ smartRounded = Pending

NoPreview == [exists |-> FALSE, recipes |-> <<>>, errors |-> <<>>]

UIdle ==
    /\ preview = NoPreview /\ committed = <<>> /\ flashed = <<>> /\ decoded = Pending
    /\ lastOp = "none" /\ imported = 0 /\ requests = 0

VIdle == recipeTable = <<>> /\ saveRequest = Pending /\ saveFlashed = <<>>

WIdle == confirms = <<>>

CIdle ==
    /\ csvLines = <<>> /\ csvPos = 0 /\ rowNum = 2
    /\ recipes = <<>> /\ errors = <<>> /\ errLines = <<>> /\ recLines = <<>>
    /\ csvpc = "idle"

QInit ==
    /\ qtext \in QtyInputs
    /\ qcsv = Pending
    /\ qform = Pending
    /\ IIdle /\ SIdle /\ CIdle /\ XIdle /\ KIdle /\ UIdle /\ VIdle /\ WIdle

CallCsvParseQuantity ==
    /\ qcsv = Pending
    /\ qcsv' = CsvParseQuantity(qtext)
    /\ UNCHANGED <<qtext, qform, ivars, svars, cvars, xvars, kvars, uvars, vvars, wvars>>

CallFormParseQuantity ==
    /\ qform = Pending
    /\ qform' = FormParseQuantity(qtext)
    /\ UNCHANGED <<qtext, qcsv, ivars, svars, cvars, xvars, kvars, uvars, vvars, wvars>>

QNext == CallCsvParseQuantity \/ CallFormParseQuantity

SpecQuantity == QInit /\ [][QNext]_vars

----------------------------------------------------------------------------
(* The ingredient parsers applied to a bounded set of lines and lists *)

\* a line is one piece of each kind, in this order: marker, quantity, unit,
\* name, preparation, marker
LeadMarkers == { <<>>,
                <<"(", "o", "p", "t", "i", "o", "n", "a", "l", ")", " ">> }

QuantityPieces == { <<>>,
                    <<"2">>,
                    <<"2", " ">>,
                    <<"1", "/", "2", " ">>,
                    <<"1", " ", "1", "/", "2", " ">> }

UnitPieces == { <<>>,
                <<"c", "u", "p", "s">>,
                <<"c", "u", "p", "s", " ">>,
                <<"C", "u", "p", " ">>,
                <<"t", "s", "p", " ">>,
                <<"l", "b", "s", " ">>,
                <<"L", " ">>,
                <<"c", "u", "p">> }

NamePieces == { <<>>,
                <<"f", "l", "o", "u", "r">>,
                <<"s", "a", "l", "t">>,
                <<"c", "a", "k", "e">>,
                <<"7", " ", "u", "p">>,
                <<"s", "a", "l", "t", " ", "c", "u", "p", "s">> }

PreparationPieces == { <<>>,
                       <<",">>,
                       <<",", " ", "m", "e", "l", "t", "e", "d">> }

TailMarkers == { <<>>,
                 <<" ", "(", "o", "p", "t", "i", "o", "n", "a", "l", ")">>,
                 <<"(", "O", "p", "t", "i", "o", "n", "a", "l", ")">> }

IngredientLines ==
    {a \o b \o c \o d \o e \o f :
        a \in LeadMarkers, b \in QuantityPieces, c \in UnitPieces,
        d \in NamePieces, e \in PreparationPieces, f \in TailMarkers}

\* a list is at most MaxItems of these items, joined by "|"
MaxItems == 2

ListItems == { <<>>,
               <<" ">>,
               <<"2", " ", "c", "u", "p", "s", " ", "f", "l", "o", "u", "r">>,
               <<"1", "/", "2", " ", "t", "s", "p", " ", "s", "a", "l", "t">>,
               <<",", " ", "m", "e", "l", "t", "e", "d">>,
               <<"(", "o", "p", "t", "i", "o", "n", "a", "l", ")">>,
               <<"s", "a", "l", "t">>,
               <<"x", " ", "(", "o", "p", "t", "(", "o", "p", "t", "i", "o", "n", "a", "l", ")", "i", "o", "n", "a", "l", ")">> }

RECURSIVE PipeLists(_)
PipeLists(n) ==
    IF n = 1 THEN ListItems
    ELSE LET shorter == PipeLists(n - 1)
         IN  shorter \cup {s \o <<"|">> \o t : s \in shorter, t \in ListItems}

IngredientInputs == IngredientLines \cup PipeLists(MaxItems)

IInit ==
    /\ itext \in IngredientInputs
    /\ ising = Pending
    /\ ilist = Pending
    /\ QIdle /\ SIdle /\ CIdle /\ XIdle /\ KIdle /\ UIdle /\ VIdle /\ WIdle

CallParseSingleIngredient ==
    /\ ising = Pending
    /\ ising' = ParseSingleIngredient(itext)
    /\ UNCHANGED <<itext, ilist, qvars, svars, cvars, xvars, kvars, uvars, vvars, wvars>>

CallParseIngredients ==
    /\ ilist = Pending
    /\ ilist' = ParseIngredients(itext)
    /\ UNCHANGED <<itext, ising, qvars, svars, cvars, xvars, kvars, uvars, vvars, wvars>>

INext == CallParseSingleIngredient \/ CallParseIngredients

SpecIngredient == IInit /\ [][INext]_vars

----------------------------------------------------------------------------
(* parse_sections applied to bounded pairs of texts *)

\* a text has at most MaxMarkers markers
MaxMarkers == 2

SectionNames == { <<"A">>, <<"B">> }

IngredientBodies == { <<>>, <<"x", "|", "2", " ", "g", " ", "y">> }

InstructionBodies == { <<" ">>, <<"s">> }

LeadTexts == { <<>>, <<"p", "|">> }

RECURSIVE PairSeqs(_, _, _)
PairSeqs(names, bodies, n) ==
    IF n = 0 THEN {<<>>}
    ELSE LET shorter == PairSeqs(names, bodies, n - 1)
         IN  shorter \cup {Append(s, <<nm, b>>) : s \in shorter, nm \in names, b \in bodies}

\* the markers of the specification's example
ExampleMarkers ==
    [lead |-> <<>>,
     ingr |-> << <<<<"S", "h", "e", "l", "l">>, <<"2", " ", "c", "u", "p", "s", " ", "f", "l", "o", "u", "r", "|", "1", "/", "2", " ", "c", "u", "p", " ", "b", "u", "t", "t", "e", "r">>>>,
                 <<<<"F", "i", "l", "l", "i", "n", "g">>, <<"2", " ", "c", "u", "p", "s", " ", "r", "i", "c", "o", "t", "t", "a">>>> >>,
     instr |-> << <<<<"S", "h", "e", "l", "l">>, <<"m", "i", "x">>>>, <<<<"F", "i", "l", "l", "i", "n", "g">>, <<"s", "t", "i", "r">>>> >>]

SectionInputs ==
    [lead : LeadTexts,
     ingr : PairSeqs(SectionNames, IngredientBodies, MaxMarkers),
     instr : PairSeqs(SectionNames, InstructionBodies, MaxMarkers)]
        \cup {ExampleMarkers}

\* "[name]body" for each pair, one after the other
RECURSIVE Written(_)
Written(pairs) ==
    IF pairs = <<>> THEN <<>>
    ELSE <<"[">> \o pairs[1][1] \o <<"]">> \o pairs[1][2] \o Written(Tail(pairs))

SInit ==
    /\ sMarkers \in SectionInputs
    /\ sIngr = sMarkers.lead \o Written(sMarkers.ingr)
    /\ sInstr = Written(sMarkers.instr)
    /\ sres = Pending
    /\ QIdle /\ IIdle /\ CIdle /\ XIdle /\ KIdle /\ UIdle /\ VIdle /\ WIdle

CallParseSections ==
    /\ sres = Pending
    /\ sres' = ParseSections(sIngr, sInstr)
    /\ UNCHANGED <<sIngr, sInstr, sMarkers, qvars, ivars, cvars, xvars, kvars, uvars, vvars, wvars>>

SNext == CallParseSections

SpecSections == SInit /\ [][SNext]_vars

----------------------------------------------------------------------------
(* parse_recipe_csv *)

\* csv.reader: the text of a line before its first carriage return
BeforeCR(line) ==
    IF HasChar(line, "\r")
    THEN SubSeq(line, 1, SetMin({i \in 1..Len(line) : line[i] = "\r"}) - 1)
    ELSE line

\* csv.reader raises csv.Error ("new-line character seen in unquoted field")
\* when a carriage return is followed by another character of the same line
ReaderRejects(line) ==
    \E i \in 1..Len(line) : \E j \in (i + 1)..Len(line) : line[i] = "\r" /\ line[j] # "\r"

\* csv.reader yields [] for a line without a field; DictReader skips it
IsEmptyRow(line) == BeforeCR(line) = <<>>

\* DictReader: a cell the row does not have is restval, None
Cell(fields, i) == IF i <= Len(fields) THEN fields[i] ELSE None

\* the characters of s at the positions of the set I, in order
Picked(s, I) ==
    [k \in 1..Cardinality(I) |-> s[CHOOSE x \in I : Cardinality({y \in I : y <= x}) = k]]

Quotes(s, a, b) == Cardinality({x \in a..b : s[x] = "\""})

\* csv.reader: the quote that closes the quoted field starting at s[1]; a
\* doubled quote inside the field stands for one quote
ClosingQuotes(s) ==
    {j \in 2..Len(s) : /\ s[j] = "\""
                       /\ Quotes(s, 2, j - 1) % 2 = 0
                       /\ (j = Len(s) \/ s[j + 1] # "\"")}

\* the field from its closing quote at j on: what follows the quote up to the
\* next comma belongs to the field as written
RECURSIVE ReadFields(_)
ReadQuoted(s, j, k) ==
    <<Picked(s, {x \in 2..(j - 1) : ~(s[x] = "\"" /\ Quotes(s, 2, x) % 2 = 0)})
        \o SubSeq(s, j + 1, k - 1)>>
        \o (IF k > Len(s) THEN <<>> ELSE ReadFields(SubSeq(s, k + 1, Len(s))))

ReadUnquoted(s, k) ==
    <<SubSeq(s, 1, k - 1)>> \o (IF k > Len(s) THEN <<>> ELSE ReadFields(SubSeq(s, k + 1, Len(s))))

CloseAt(s, j) == ReadQuoted(s, j, FirstOr({k \in (j + 1)..Len(s) : s[k] = ","}, Len(s) + 1))

\* csv.reader: the fields of a line that has no line break inside a quoted
\* field (a quoted field left open runs to the end of the line)
ReadFields(s) ==
    IF s # <<>> /\ s[1] = "\""
    THEN CloseAt(s, FirstOr(ClosingQuotes(s), Len(s) + 1))
    ELSE ReadUnquoted(s, FirstOr({k \in 1..Len(s) : s[k] = ","}, Len(s) + 1))

\* the header of the bounded contents given to parse_recipe_csv
ImportHeader ==
    <<"title", "ingredients", "instructions", "prep_time_minutes", "cook_time_minutes",
      "rest_time_minutes", "servings">>

\* the columns of a row that the model follows
RowKeys == {ImportHeader[i] : i \in 1..Len(ImportHeader)}

\* row.get(key, ''): the cell under the column key, '' without such a column
ColumnOf(header, key, fields) ==
    IF \E i \in 1..Len(header) : header[i] = key
    THEN Cell(fields, CHOOSE i \in 1..Len(header) : header[i] = key)
    ELSE <<>>

\* DictReader: the row as a dict over the header (cells after the last column
\* go to restkey, which parse_recipe_csv never reads)
RowFrom(header, fields) == [key \in RowKeys |-> ColumnOf(header, key, fields)]

RowOf(fields) == RowFrom(ImportHeader, fields)

DictRow(line) == RowOf(ReadFields(BeforeCR(line)))

\* the lines after pos at which next(reader) can stop
RecordLines(lines, pos) ==
    {p \in (pos + 1)..Len(lines) : ReaderRejects(lines[p]) \/ ~IsEmptyRow(lines[p])}

RowError(row_num, msg) == [k |-> "error", v |-> [row |-> row_num, msg |-> msg]]

Servings == <<"s", "e", "r", "v", "i", "n", "g", "s">>

\* an int
PyInt(n) == <<"int", n>>

\* int(t) for trimmed text: an optional sign, then digits, single underscores
\* allowed between digits; anything else is ValueError, which parse_int
\* turns into None
IntOfDigits(sign, body) ==
    IF /\ body # <<>>
       /\ \A i \in 1..Len(body) : IsDigit(body[i]) \/ body[i] = "_"
       /\ IsDigit(body[1]) /\ IsDigit(body[Len(body)])
       /\ \A i \in 1..(Len(body) - 1) : ~(body[i] = "_" /\ body[i + 1] = "_")
    THEN PyInt(sign * DigitsVal(SelectSeq(body, IsDigit)))
    ELSE None

IntOrNone(t) ==
    IF t # <<>> /\ t[1] = "-" THEN IntOfDigits(-1, Tail(t))
    ELSE IF t # <<>> /\ t[1] = "+" THEN IntOfDigits(1, Tail(t))
    ELSE IntOfDigits(1, t)

\* services/csv_handler.py: parse_int
ParseInt(value) == IF value = None \/ value = <<>> THEN None ELSE IntOrNone(Strip(value))

\* the keys both recipe dicts have; the header has no category, description,
\* servings_unit, notes or source column, so row.get gives their defaults
CommonFields(title, row) ==
    [title |-> title, category |-> None, description |-> None,
     prep_time_minutes |-> ParseInt(row.prep_time_minutes),
     cook_time_minutes |-> ParseInt(row.cook_time_minutes),
     servings |-> ParseInt(row.servings),
     servings_unit |-> Servings, notes |-> None, source |-> None]

SectionedRecipe(common, sections) ==
    [k |-> "recipe", v |-> common @@ [has_sections |-> TRUE, sections |-> sections]]

SimpleRecipe(common, ingredients, instructions_str) ==
    [k |-> "recipe",
     v |-> common @@ [has_sections |-> FALSE, ingredients |-> ingredients,
                      instructions |-> instructions_str]]

\* a sectioned recipe is made whatever parse_sections returned
SectionedAlways(row_num, common, sections) == SectionedRecipe(common, sections)

Sectioned(row_num, common, sections) ==
    IF sections = <<>>
    THEN RowError(row_num, "Sectioned recipe must have at least one section with instructions")
    ELSE SectionedRecipe(common, sections)

Simple(row_num, common, ingredients_str, instructions_str) ==
    IF instructions_str = <<>>
    THEN RowError(row_num, "Instructions are required")
    ELSE SimpleRecipe(common, ParseIngredients(ingredients_str).v, instructions_str)

WithInstructions(row_num, common, ingredients_str, instructions_str) ==
    IF ingredients_str = None
    THEN RowError(row_num, "expected string or bytes-like object, got 'NoneType'")
    ELSE IF HasMarker(ingredients_str) \/ HasMarker(instructions_str)
    THEN Sectioned(row_num, common, ParseSections(ingredients_str, instructions_str).v)
    ELSE Simple(row_num, common, ingredients_str, instructions_str)

WithTitle(row_num, title, row) ==
    IF title = <<>> THEN RowError(row_num, "Title is required")
    ELSE IF row.instructions = None
    THEN RowError(row_num, "'NoneType' object has no attribute 'strip'")
    ELSE WithInstructions(row_num, CommonFields(title, row), row.ingredients, Strip(row.instructions))

\* the body of the for loop for one row
ProcessRow(row_num, row) ==
    IF row.title = None
    THEN RowError(row_num, "'NoneType' object has no attribute 'strip'")
    ELSE WithTitle(row_num, Strip(row.title), row)

----------------------------------------------------------------------------
(* format_ingredient, create_csv_export *)

\* str(n) for a natural number
RECURSIVE IntText(_)
IntText(n) == IF n < 10 THEN <<Digits[n + 1]>> ELSE IntText(n \div 10) \o <<Digits[(n % 10) + 1]>>

\* the decimals of n/d for n < d, at most k of them
RECURSIVE FracText(_, _, _)
FracText(n, d, k) ==
    IF n = 0 \/ k = 0 THEN <<>>
    ELSE <<Digits[((10 * n) \div d) + 1]>> \o FracText((10 * n) % d, d, k - 1)

\* str(x) for a float x >= 0 with a short decimal expansion: "2.0", "0.5", "0.33"
StrFloat(x) ==
    IntText(x[1] \div x[2]) \o <<".">>
        \o (IF x[1] % x[2] = 0 THEN <<"0">> ELSE FracText(x[1] % x[2], x[2], 17))

\* sep.join(parts)
RECURSIVE JoinWith(_, _)
JoinWith(parts, sep) ==
    IF parts = <<>> THEN <<>>
    ELSE IF Len(parts) = 1 THEN parts[1]
    ELSE parts[1] \o sep \o JoinWith(Tail(parts), sep)

\* truth value of an optional str
Truthy(v) == v # None /\ v # <<>>

\* services/csv_handler.py: format_ingredient
FormatIngredient(ing) ==
    JoinWith((IF ing.quantity # None /\ ing.quantity[1] # 0 THEN <<StrFloat(ing.quantity)>> ELSE <<>>)
                 \o (IF Truthy(ing.unit) THEN <<ing.unit>> ELSE <<>>)
                 \o <<ing.name>>
                 \o (IF Truthy(ing.preparation) THEN <<<<",", " ">> \o ing.preparation>> ELSE <<>>)
                 \o (IF ing.is_optional THEN <<<<" ", "(", "o", "p", "t", "i", "o", "n", "a", "l", ")">>>> ELSE <<>>),
             <<" ">>)

FormatIngredients(ingredients) ==
    [i \in 1..Len(ingredients) |-> FormatIngredient(ingredients[i])]

\* f'[{section.name}]' + '|'.join(section_ingredients), for a section that has ingredients
SectionIngredientsPart(section) ==
    IF section.ingredients = <<>> THEN <<>>
    ELSE <<"[">> \o section.name \o <<"]">> \o JoinWith(FormatIngredients(section.ingredients), <<"|">>)

\* f'[{section.name}]{section.instructions}', for a section that has instructions
SectionInstructionsPart(section) ==
    IF Truthy(section.instructions)
    THEN <<"[">> \o section.name \o <<"]">> \o section.instructions
    ELSE <<>>

ExportIngredients(recipe) ==
    IF recipe.has_sections
    THEN JoinWith([i \in 1..Len(recipe.sections) |-> SectionIngredientsPart(recipe.sections[i])], <<>>)
    ELSE JoinWith(FormatIngredients(recipe.ingredients), <<"|">>)

ExportInstructions(recipe) ==
    IF recipe.has_sections
    THEN JoinWith([i \in 1..Len(recipe.sections) |-> SectionInstructionsPart(recipe.sections[i])], <<>>)
    ELSE IF Truthy(recipe.instructions) THEN recipe.instructions ELSE <<>>

\* recipe.prep_time_minutes or '', as the writer writes it
IntCell(v) ==
    IF v = None \/ v[2] = 0 THEN <<>>
    ELSE IF v[2] < 0 THEN <<"-">> \o IntText(-v[2]) ELSE IntText(v[2])

TextOr(v, default) == IF Truthy(v) THEN v ELSE default

\* services/csv_handler.py: create_csv_export, fieldnames
ExportFieldnames ==
    <<"title", "category", "description", "prep_time_minutes", "cook_time_minutes",
      "servings", "servings_unit", "ingredients", "instructions", "notes", "source">>

\* the dict given to writer.writerow, in the order of fieldnames; a stored
\* recipe of the model has no category
ExportCells(recipe) ==
    <<recipe.title, <<>>, TextOr(recipe.description, <<>>),
      IntCell(recipe.prep_time_minutes), IntCell(recipe.cook_time_minutes),
      IntCell(recipe.servings), TextOr(recipe.servings_unit, Servings),
      ExportIngredients(recipe), ExportInstructions(recipe),
      TextOr(recipe.notes, <<>>), TextOr(recipe.source, <<>>)>>

\* csv.writer, QUOTE_MINIMAL: a cell with a comma, a quote or a line break is
\* written between quotes, its quotes doubled
WriteCell(cell) ==
    IF \E i \in 1..Len(cell) : cell[i] \in {",", "\"", "\r", "\n"}
    THEN <<"\"">> \o JoinWith([i \in 1..Len(cell) |->
                                  IF cell[i] = "\"" THEN <<"\"", "\"">> ELSE <<cell[i]>>], <<>>)
             \o <<"\"">>
    ELSE cell

\* one line of the output, up to its "\n"
WriteLine(cells) ==
    JoinWith([i \in 1..Len(cells) |-> WriteCell(cells[i])], <<",">>) \o <<"\r">>

\* services/csv_handler.py: create_csv_export
CreateCsvExport(stored) ==
    [header |-> ExportFieldnames,
     lines |-> [i \in 1..Len(stored) |-> WriteLine(ExportCells(stored[i]))]]

\* routes/import_export.py: download_template, the first line of the template
TemplateHeader ==
    <<"title", "category", "description", "prep_time_minutes", "cook_time_minutes",
      "rest_time_minutes", "servings", "servings_unit", "ingredients", "instructions",
      "notes", "source">>

\* parse_recipe_csv on an exported content: the outcome of each row, or
\* csv.Error
ParseExported(csv) ==
    IF \E i \in 1..Len(csv.lines) : ReaderRejects(csv.lines[i])
    THEN Exc("csv.Error")
    ELSE Ret([i \in 1..Len(csv.lines) |->
                 ProcessRow(i + 1, RowFrom(csv.header, ReadFields(BeforeCR(csv.lines[i]))))])

----------------------------------------------------------------------------
(* parse_recipe_csv applied to bounded contents *)

MaxRows == 2

\* lines after the header: empty lines, a line the reader rejects, complete,
\* short and long rows, rows without title or instructions, sectioned rows,
\* rows with numeric cells
RowTexts ==
    {<<>>,
     <<"\r">>,
     <<"A", "\r", "B", ",", "x", ",", "y">>,
     <<"A", ",", "x", ",", "y">>,
     <<",", "x", ",", "y">>,
     <<" ", ",", "x", ",", "y">>,
     <<"A">>,
     <<"A", ",", "x">>,
     <<"A", ",", "x", ",", " ">>,
     <<"A", ",", "[", "S", "]", "x", ",", "[", "S", "]", "s">>,
     <<"A", ",", "[", "S", "]", "x", ",", "y">>,
     <<"A", ",", "x", ",", "y", ",", "z">>,
     <<"B", ",", "2", " ", "g", " ", "y", "|", "x", ",", "s", "\r">>,
     <<"B", ",", ",", " ", "s", " ">>,
     <<"A", ",", "x", ",", "[", "S", "]", "s">>,
     <<"A", ",", "[", "]", "]", ",", "s">>,
     <<"A", ",", "x", ",", "y", ",", "1", "5", ",", ",", "3", "0", ",", "4">>,
     <<"B", ",", "x", ",", "y", ",", "1", ".", "5", ",", " ", "7", " ", ",", "x", ",", "-", "3">>,
     <<"C", ",", "[", "S", "]", "x", ",", "[", "S", "]", "s", ",", "+", "1", ",", "1", "_", "0", ",", "2", ",">>,
     <<"D", ",", "x", ",", "y", ",", "-", "5">>,
     <<"E", ",", "a", "[", "S", "]", "x", "[", "S", "]", "z", ",", "[", "S", "]", "s">>}

CsvInputs == UNION {[1..n -> RowTexts] : n \in 0..MaxRows}

CInit ==
    /\ csvLines \in CsvInputs
    /\ csvPos = 0
    /\ rowNum = 2
    /\ recipes = <<>>
    /\ errors = <<>>
    /\ errLines = <<>>
    /\ recLines = <<>>
    /\ csvpc = "loop"
    /\ QIdle /\ IIdle /\ SIdle /\ XIdle /\ KIdle /\ UIdle /\ VIdle /\ WIdle

\* one pass of the loop body over the row read from line p
Collect(p, outcome) ==
    /\ csvPos' = p
    /\ rowNum' = rowNum + 1
    /\ recipes' = IF outcome.k = "recipe" THEN Append(recipes, outcome.v) ELSE recipes
    /\ errors' = IF outcome.k = "error" THEN Append(errors, outcome.v) ELSE errors
    /\ errLines' = IF outcome.k = "error" THEN Append(errLines, p + 1) ELSE errLines
    /\ recLines' = IF outcome.k = "recipe" THEN Append(recLines, p + 1) ELSE recLines
    /\ UNCHANGED <<csvLines, csvpc>>

RowAt(p) ==
    /\ ~ReaderRejects(csvLines[p])
    /\ Collect(p, ProcessRow(rowNum, DictRow(csvLines[p])))

\* next(reader) yields a row and the loop body runs on it
IterateRow ==
    /\ csvpc = "loop"
    /\ RecordLines(csvLines, csvPos) # {}
    /\ RowAt(SetMin(RecordLines(csvLines, csvPos)))
    /\ UNCHANGED <<qvars, ivars, svars, xvars, kvars, uvars, vvars, wvars>>

RaiseAt(p) ==
    /\ ReaderRejects(csvLines[p])
    /\ csvPos' = p
    /\ csvpc' = "raised"

\* next(reader) raises csv.Error, outside the try of the loop body
ReaderRaises ==
    /\ csvpc = "loop"
    /\ RecordLines(csvLines, csvPos) # {}
    /\ RaiseAt(SetMin(RecordLines(csvLines, csvPos)))
    /\ UNCHANGED <<csvLines, rowNum, recipes, errors, errLines, recLines, qvars, ivars, svars, xvars, kvars, uvars, vvars, wvars>>

\* the reader is exhausted: return recipes, errors
ReturnResult ==
    /\ csvpc = "loop"
    /\ RecordLines(csvLines, csvPos) = {}
    /\ csvPos' = Len(csvLines)
    /\ csvpc' = "done"
    /\ UNCHANGED <<csvLines, rowNum, recipes, errors, errLines, recLines, qvars, ivars, svars, xvars, kvars, uvars, vvars, wvars>>

CNext == IterateRow \/ ReaderRaises \/ ReturnResult

SpecCsv == CInit /\ [][CNext]_vars

----------------------------------------------------------------------------
(* Import, export and import again, on bounded rows *)

\* ingredients cells beside the pipe lists: a zero quantity, an empty
\* preparation, a quote, a comma inside the preparation
RoundTripItems ==
    {<<"0", " ", "c", "u", "p", "s", " ", "f", "l", "o", "u", "r">>, <<"b", "u", "t", "t", "e", "r", ",">>, <<"s", "a", "y", " ", "\"", "h", "i", "\"">>, <<"b", "u", "t", "t", "e", "r", ",", " ", "m", "e", "l", "t", "e", "d", ",", " ", "c", "o", "o", "l", "e", "d">>,
     <<"2", " ", "c", "u", "p", "s", " ", "f", "l", "o", "u", "r", ",", " ", "s", "i", "f", "t", "e", "d", " ", "(", "o", "p", "t", "i", "o", "n", "a", "l", ")">>, <<"1", " ", "1", "/", "2", " ", "C", "u", "p", " ", "c", "a", "k", "e">>}

\* rows over ImportHeader: unsectioned rows, sectioned rows, rows with
\* numbers, and a row without title, which stores nothing
ExportInputs ==
    {<<<<"A">>, i, <<"m", "i", "x">>>> : i \in PipeLists(MaxItems) \cup RoundTripItems}
        \cup {<<<<"T">>, <<"[", "S", "]">> \o i \o <<"[", "T", "]", "s", "a", "l", "t">>, <<"[", "S", "]", "s", "[", "T", "]", "t", ",", " ", "u">>>> : i \in ListItems \cup RoundTripItems}
        \cup {<<<<"A">>, <<"x">>, <<"a", " ", "\"", "q", "\"", " ", "b">>, <<"1", "5">>, <<"0">>, <<"3", "0">>, <<"4">>>>,
              <<<<"A", ",", "b">>, <<"3", " ", "e", "g", "g", "s">>, <<"s">>, <<"-", "3">>, <<"x">>, <<>>, <<"7">>>>,
              <<<<>>, <<"x">>, <<"s">>>>}

XInit ==
    /\ xCells \in ExportInputs
    /\ xStored = Pending
    /\ xCsv = Pending
    /\ xAgain = Pending
    /\ QIdle /\ IIdle /\ SIdle /\ CIdle /\ KIdle /\ UIdle /\ VIdle /\ WIdle

\* what confirm_import stores for the outcome of a row: its recipe, unchanged
StoredFrom(outcome) == IF outcome.k = "recipe" THEN <<outcome.v>> ELSE <<>>

\* upload and confirm_import of the one-row content
ImportRow ==
    /\ xStored = Pending
    /\ xStored' = Ret(StoredFrom(ProcessRow(2, RowOf(xCells))))
    /\ UNCHANGED <<xCells, xCsv, xAgain, qvars, ivars, svars, cvars, kvars, uvars, vvars, wvars>>

\* export: create_csv_export(Recipe.query.all())
ExportAll ==
    /\ xStored.k = "ret"
    /\ xCsv = Pending
    /\ xCsv' = Ret(CreateCsvExport(xStored.v))
    /\ UNCHANGED <<xCells, xStored, xAgain, qvars, ivars, svars, cvars, kvars, uvars, vvars, wvars>>

\* parse_recipe_csv on the exported content
ImportAgain ==
    /\ xCsv.k = "ret"
    /\ xAgain = Pending
    /\ xAgain' = ParseExported(xCsv.v)
    /\ UNCHANGED <<xCells, xStored, xCsv, qvars, ivars, svars, cvars, kvars, uvars, vvars, wvars>>

XNext == ImportRow \/ ExportAll \/ ImportAgain

SpecExport == XInit /\ [][XNext]_vars

----------------------------------------------------------------------------
(* The conversions applied to bounded quantities and units *)

\* absent, zero, negative, and positive quantities that snap to a threshold,
\* fall between thresholds, or lie half way between two results
Quantities ==
    {None, <<0, 1>>, <<-1, 1>>, <<1, 1>>, <<1, 2>>, <<1, 4>>, <<2, 1>>, <<3, 1>>,
     <<15, 2>>, <<7, 20>>, <<33, 1>>, <<67, 2>>, <<225, 2>>, <<600, 1>>}

\* every unit of the two tables, other letter cases, absent and unknown units
UnitsGiven ==
    {Conversions[i][1] : i \in 1..Len(Conversions)}
        \cup {MetricToUs[i][1] : i \in 1..Len(MetricToUs)}
        \cup {<<"C", "u", "p">>, <<"C", "U", "P", "S">>, <<"F", "l", " ", "O", "z">>, <<"M", "L">>, <<"l">>, <<"G">>, <<"K", "g">>, <<"C", "M">>,
              <<"I", "n", "c", "h">>, None, <<>>, <<"b", "u", "s", "h", "e", "l">>}

KInit ==
    /\ kQty \in Quantities
    /\ kUnit \in UnitsGiven
    /\ toMetric = Pending /\ toUs = Pending /\ smartRounded = Pending
    /\ QIdle /\ IIdle /\ SIdle /\ CIdle /\ XIdle /\ UIdle /\ VIdle /\ WIdle

CallConvertToMetric ==
    /\ toMetric = Pending
    /\ \E r \in ConvertToMetric(kQty, kUnit) : toMetric' = r
    /\ UNCHANGED <<kQty, kUnit, toUs, smartRounded, qvars, ivars, svars, cvars, xvars, uvars, vvars, wvars>>

CallConvertToUs ==
    /\ toUs = Pending
    /\ \E r \in ConvertToUs(kQty, kUnit) : toUs' = r
    /\ UNCHANGED <<kQty, kUnit, toMetric, smartRounded, qvars, ivars, svars, cvars, xvars, uvars, vvars, wvars>>

CallSmartRoundMetric ==
    /\ smartRounded = Pending
    /\ \E r \in SmartRoundMetric(kQty, kUnit) : smartRounded' = r
    /\ UNCHANGED <<kQty, kUnit, toMetric, toUs, qvars, ivars, svars, cvars, xvars, uvars, vvars, wvars>>

KNext == CallConvertToMetric \/ CallConvertToUs \/ CallSmartRoundMetric

SpecConversion == KInit /\ [][KNext]_vars

----------------------------------------------------------------------------
(* routes/import_export.py: upload and confirm_import in one session *)

IsRecipe(outcome) == outcome.k = "recipe"

IsError(outcome) == outcome.k = "error"

ValuesOf(outcomes) == [i \in 1..Len(outcomes) |-> outcomes[i].v]

RowOutcomes(rows) == [i \in 1..Len(rows) |-> ProcessRow(i + 1, DictRow(rows[i]))]

Decoded(outcomes) ==
    Ret([recipes |-> ValuesOf(SelectSeq(outcomes, IsRecipe)),
         errors |-> ValuesOf(SelectSeq(outcomes, IsError))])

NotEmptyRow(line) == ~IsEmptyRow(line)

\* services/csv_handler.py: parse_recipe_csv on the lines after the header
ParseRecipeCsv(lines) ==
    IF \E i \in 1..Len(lines) : ReaderRejects(lines[i])
    THEN Exc("csv.Error")
    ELSE Decoded(RowOutcomes(SelectSeq(lines, NotEmptyRow)))

\* a flashed message that is not about a row
Flash(msg) == <<[row |-> 0, msg |-> msg]>>

MaxRequests == 3

\* the request has no file, an empty file name, a name that is not *.csv, or
\* a CSV file: empty, with recipes, with errors only, with both, or one that
\* the reader rejects
UploadRequests ==
    {[filename |-> f, lines |-> <<>>] : f \in {None, <<>>, <<"a", ".", "t", "x", "t">>}}
        \cup {[filename |-> <<"a", ".", "c", "s", "v">>, lines |-> c] :
                 c \in {<<>>,
                        <<<<"A", ",", "x", ",", "y">>>>,
                        <<<<"B", ",", "2", " ", "g", " ", "y", "|", "x", ",", "s">>>>,
                        <<<<",", "x", ",", "y">>>>,
                        <<<<"A", ",", "x", ",", "y">>, <<",", "x", ",", "y">>>>,
                        <<<<>>, <<",", "x", ",", "y">>, <<"A">>>>,
                        <<<<"A", "\r", "B", ",", "x", ",", "y">>>>}}

UInit ==
    /\ preview = NoPreview /\ committed = <<>> /\ flashed = <<>> /\ decoded = Pending
    /\ lastOp = "none" /\ imported = 0 /\ requests = 0
    /\ QIdle /\ IIdle /\ SIdle /\ CIdle /\ XIdle /\ KIdle /\ VIdle /\ WIdle

EndsWithCsv(filename) ==
    Len(filename) >= 4 /\ SubSeq(filename, Len(filename) - 3, Len(filename)) = <<".", "c", "s", "v">>

\* upload after parse_recipe_csv returned
UploadDecoded(result) ==
    IF result.errors # <<>> /\ result.recipes = <<>>
    THEN flashed' = result.errors /\ UNCHANGED preview
    ELSE /\ preview' = [exists |-> TRUE, recipes |-> result.recipes, errors |-> result.errors]
         /\ flashed' = <<>>

UploadFile(outcome) ==
    /\ decoded' = outcome
    /\ IF outcome.k = "exc"
       THEN flashed' = Flash("Error processing file") /\ UNCHANGED preview
       ELSE UploadDecoded(outcome.v)

Refuse(msg) == flashed' = Flash(msg) /\ decoded' = Pending /\ UNCHANGED preview

Upload ==
    /\ requests < MaxRequests
    /\ \E request \in UploadRequests :
           IF request.filename = None THEN Refuse("No file uploaded.")
           ELSE IF request.filename = <<>> THEN Refuse("No file selected.")
           ELSE IF ~EndsWithCsv(request.filename) THEN Refuse("Please upload a CSV file.")
           ELSE UploadFile(ParseRecipeCsv(request.lines))
    /\ lastOp' = "upload" /\ imported' = 0 /\ requests' = requests + 1
    /\ UNCHANGED <<committed, qvars, ivars, svars, cvars, xvars, kvars, vvars, wvars>>

\* load_preview_data
LoadPreviewData == IF preview.exists THEN preview.recipes ELSE <<>>

\* confirm_import: the commit succeeds, or an exception rolls the session back
ConfirmLoaded(loaded, ok) ==
    IF loaded = <<>>
    THEN flashed' = Flash("No recipes to import.") /\ imported' = 0
             /\ UNCHANGED <<preview, committed>>
    ELSE IF ok
    THEN /\ committed' = committed \o loaded
         /\ preview' = NoPreview
         /\ imported' = Len(loaded)
         /\ flashed' = Flash("Successfully imported")
    ELSE flashed' = Flash("Error importing recipes") /\ imported' = 0
             /\ UNCHANGED <<preview, committed>>

ConfirmImport ==
    /\ requests < MaxRequests
    /\ \E ok \in BOOLEAN : ConfirmLoaded(LoadPreviewData, ok)
    /\ lastOp' = "confirm" /\ requests' = requests + 1
    /\ UNCHANGED <<decoded, qvars, ivars, svars, cvars, xvars, kvars, vvars, wvars>>

UNext == Upload \/ ConfirmImport

SpecImport == UInit /\ [][UNext]_vars

----------------------------------------------------------------------------
(* confirm_import, requests of one session served concurrently *)

MaxConfirms == 2

\* a request that has not entered the handler; batch records how many uploads
\* the session had made when the request read the preview
NotStarted == [pc |-> "start", loaded |-> <<>>, batch |-> 0]

WInit ==
    /\ preview = NoPreview /\ committed = <<>> /\ flashed = <<>> /\ decoded = Pending
    /\ lastOp = "none" /\ imported = 0 /\ requests = 0
    /\ confirms = [r \in 1..MaxConfirms |-> NotStarted]
    /\ QIdle /\ IIdle /\ SIdle /\ CIdle /\ XIdle /\ KIdle /\ VIdle

At(r, pc) == confirms' = [confirms EXCEPT ![r].pc = pc]

\* confirm_import: recipes, errors = load_preview_data(), and the return when
\* there is nothing to import
ConfirmLoad(r) ==
    /\ confirms[r].pc = "start"
    /\ IF LoadPreviewData = <<>>
       THEN /\ flashed' = Flash("No recipes to import.")
            /\ confirms' = [confirms EXCEPT ![r] = [pc |-> "done", loaded |-> <<>>, batch |-> requests]]
       ELSE /\ UNCHANGED flashed
            /\ confirms' = [confirms EXCEPT ![r] = [pc |-> "loaded", loaded |-> LoadPreviewData, batch |-> requests]]
    /\ lastOp' = "confirm" /\ imported' = 0
    /\ UNCHANGED <<preview, committed, decoded, requests, qvars, ivars, svars, cvars, xvars, kvars, vvars>>

\* confirm_import: the loaded recipes are added and committed, or an
\* exception rolls the session back
ConfirmCommit(r) ==
    /\ confirms[r].pc = "loaded"
    /\ \E ok \in BOOLEAN :
           IF ok
           THEN committed' = committed \o confirms[r].loaded /\ At(r, "committed")
                    /\ UNCHANGED flashed
           ELSE flashed' = Flash("Error importing recipes") /\ At(r, "done")
                    /\ UNCHANGED committed
    /\ UNCHANGED <<preview, decoded, lastOp, imported, requests, qvars, ivars, svars, cvars, xvars, kvars, vvars>>

Imported(r) ==
    /\ flashed' = Flash("Successfully imported")
    /\ imported' = Len(confirms[r].loaded)
    /\ At(r, "imported")

\* clear_preview_data: os.path.exists(file_path)
ConfirmExists(r) ==
    /\ confirms[r].pc = "committed"
    /\ IF preview.exists
       THEN At(r, "removing") /\ UNCHANGED <<flashed, imported>>
       ELSE Imported(r)
    /\ UNCHANGED <<preview, committed, decoded, lastOp, requests, qvars, ivars, svars, cvars, xvars, kvars, vvars>>

\* clear_preview_data: os.remove(file_path); when another request has removed
\* the file in between, FileNotFoundError reaches the handler's except
ConfirmRemove(r) ==
    /\ confirms[r].pc = "removing"
    /\ IF preview.exists
       THEN preview' = NoPreview /\ Imported(r)
       ELSE /\ flashed' = Flash("Error importing recipes")
            /\ At(r, "imported")
            /\ UNCHANGED <<preview, imported>>
    /\ UNCHANGED <<committed, decoded, lastOp, requests, qvars, ivars, svars, cvars, xvars, kvars, vvars>>

WNext ==
    \/ Upload
    \/ \E r \in 1..MaxConfirms :
           ConfirmLoad(r) \/ ConfirmCommit(r) \/ ConfirmExists(r) \/ ConfirmRemove(r)

SpecConfirm == WInit /\ [][WNext]_vars

----------------------------------------------------------------------------
(* save_recipe, parse_sections_from_form *)

\* x or None
OrNone(s) == IF s = <<>> THEN None ELSE s

\* parse_quantity(quantity_str) if quantity_str.strip() else None
QuantityFromForm(quantity_str) ==
    IF Strip(quantity_str) = <<>> THEN None ELSE FormParseQuantity(quantity_str).v

\* parse_sections_from_form: the dictionary appended for a posted ingredient
SectionIngredientFromForm(posted) ==
    [name |-> Strip(posted.name),
     quantity |-> QuantityFromForm(posted.quantity),
     unit |-> OrNone(Strip(posted.unit)),
     preparation |-> OrNone(Strip(posted.preparation)),
     is_optional |-> posted.optional = <<"t", "r", "u", "e">>]

NamePosted(posted) == Strip(posted.name) # <<>>

\* parse_sections_from_form: the inner loop, on the ingredients posted with
\* the indices 0, 1, ...
SectionIngredientsFromForm(posted) ==
    LET named == SelectSeq(posted, NamePosted)
    IN  [i \in 1..Len(named) |-> SectionIngredientFromForm(named[i])]

\* parse_sections_from_form: the outer loop; it stops at the first index whose
\* name was not posted
RECURSIVE SectionsFromIndex(_, _)
SectionsFromIndex(posted, section_idx) ==
    IF section_idx > Len(posted) \/ ~posted[section_idx].present THEN <<>>
    ELSE <<[name |-> Strip(posted[section_idx].name),
            instructions |-> Strip(posted[section_idx].instructions),
            ingredients |-> SectionIngredientsFromForm(posted[section_idx].ingredients)]>>
             \o SectionsFromIndex(posted, section_idx + 1)

ParseSectionsFromForm(form) == SectionsFromIndex(form.sections, 1)

\* save_recipe: the rows added for the ingredients of one section
SectionIngredientRows(ingredients) ==
    [i \in 1..Len(ingredients) |->
        [name |-> ingredients[i].name,
         quantity |-> ingredients[i].quantity,
         unit |-> ingredients[i].unit,
         preparation |-> ingredients[i].preparation,
         is_optional |-> ingredients[i].is_optional,
         sort_order |-> i - 1]]

HasInstructions(section) == Strip(section.instructions) # <<>>

\* save_recipe: the rows added for the parsed sections; one whose instructions
\* are blank is skipped
SectionRows(sections) ==
    LET rows == [i \in 1..Len(sections) |->
                    [name |-> sections[i].name,
                     instructions |-> sections[i].instructions,
                     sort_order |-> i - 1,
                     ingredients |-> SectionIngredientRows(sections[i].ingredients)]]
    IN  SelectSeq(rows, HasInstructions)

\* the i-th value of a list of the form, or otherwise when the list is shorter
ListGet(list, i, otherwise) == IF i <= Len(list) THEN list[i] ELSE otherwise

StripOrNone(v) == IF v = None THEN None ELSE Strip(v)

\* save_recipe, simple mode: the rows added for ingredient_name[]
IngredientRows(form) ==
    LET rows == [i \in 1..Len(form.ingredient_name) |->
                    [name |-> Strip(form.ingredient_name[i]),
                     quantity |-> QuantityFromForm(ListGet(form.ingredient_quantity, i, <<>>)),
                     unit |-> StripOrNone(ListGet(form.ingredient_unit, i, None)),
                     preparation |-> StripOrNone(ListGet(form.ingredient_preparation, i, None)),
                     is_optional |-> \E j \in 1..Len(form.ingredient_optional) :
                                         form.ingredient_optional[j] = IntText(i - 1),
                     sort_order |-> i - 1]]
    IN  SelectSeq(rows, NamePosted)

\* save_recipe, sectioned mode: the flat instructions and ingredients are
\* cleared, the old sections are deleted and the parsed ones are added
SaveSectioned(title, form, sections) ==
    IF sections = <<>>
    THEN [commit |-> FALSE, recipe |-> None,
          flash |-> "At least one section with instructions is required."]
    ELSE [commit |-> TRUE,
          recipe |-> [title |-> title,
                      description |-> OrNone(Strip(form.description)),
                      has_sections |-> TRUE,
                      instructions |-> None,
                      ingredients |-> <<>>,
                      sections |-> SectionRows(sections)],
          flash |-> "saved"]

\* save_recipe, simple mode: the sections are deleted and the ingredients are
\* replaced by those of the form
SaveSimple(title, form, instructions) ==
    IF instructions = <<>>
    THEN [commit |-> FALSE, recipe |-> None, flash |-> "Instructions are required."]
    ELSE [commit |-> TRUE,
          recipe |-> [title |-> title,
                      description |-> OrNone(Strip(form.description)),
                      has_sections |-> FALSE,
                      instructions |-> instructions,
                      ingredients |-> IngredientRows(form),
                      sections |-> <<>>],
          flash |-> "saved"]

SaveTitled(title, form) ==
    IF title = <<>>
    THEN [commit |-> FALSE, recipe |-> None, flash |-> "Title is required."]
    ELSE IF form.has_sections = <<"t", "r", "u", "e">>
    THEN SaveSectioned(title, form, ParseSectionsFromForm(form))
    ELSE SaveSimple(title, form, Strip(form.instructions))

\* save_recipe up to db.session.commit(): what the request would commit for
\* the recipe, and the message it flashes. The scalar columns other than
\* title and description are assigned from the form in the same way.
SaveRecipe(form) == SaveTitled(Strip(form.title), form)

MaxRecipes == 2

Posted(name, quantity) ==
    [name |-> name, quantity |-> quantity, unit |-> <<>>, preparation |-> <<>>,
     optional |-> None]

PostedSection(name, instructions, ingredients) ==
    [present |-> TRUE, name |-> name, instructions |-> instructions,
     ingredients |-> ingredients]

NotPosted == [present |-> FALSE, name |-> <<>>, instructions |-> <<>>, ingredients |-> <<>>]

SimpleForm(title, instructions, names) ==
    [title |-> title, description |-> <<>>, has_sections |-> None,
     instructions |-> instructions,
     ingredient_name |-> names,
     ingredient_quantity |-> <<<<"1", " ", "1", "/", "2">>>>,
     ingredient_unit |-> <<<<" ", "c", "u", "p">>>>,
     ingredient_preparation |-> <<>>,
     ingredient_optional |-> <<<<"1">>>>,
     sections |-> <<>>]

SectionedForm(sections) ==
    [title |-> <<"T">>, description |-> <<"d">>, has_sections |-> <<"t", "r", "u", "e">>,
     instructions |-> <<"o", "l", "d">>,
     ingredient_name |-> <<<<"s", "a", "l", "t">>>>,
     ingredient_quantity |-> <<>>,
     ingredient_unit |-> <<>>,
     ingredient_preparation |-> <<>>,
     ingredient_optional |-> <<>>,
     sections |-> sections]

\* the forms posted: without a title; simple with and without instructions
\* and ingredients; sectioned with no section, with sections that have
\* instructions, with blank instructions only, with both, and with a gap in
\* the section indices
SaveForms ==
    {SimpleForm(t, i, n) :
        t \in {<<" ">>, <<"A">>},
        i \in {<<>>, <<" ">>, <<"m", "i", "x", " ">>},
        n \in {<<>>, <<<<"f", "l", "o", "u", "r">>, <<" ">>, <<"e", "g", "g">>>>}}
    \cup {SectionedForm(s) :
        s \in {<<>>,
               <<PostedSection(<<"A">>, <<"s", " ">>, <<Posted(<<"s", "a", "l", "t">>, <<"2">>), Posted(<<" ">>, <<>>)>>)>>,
               <<PostedSection(<<"A">>, <<" ">>, <<Posted(<<"s", "a", "l", "t">>, <<>>)>>)>>,
               <<PostedSection(<<"A">>, <<>>, <<>>), PostedSection(<<"B">>, <<"t">>, <<>>)>>,
               <<NotPosted, PostedSection(<<"B">>, <<"t">>, <<>>)>>}}

VInit ==
    /\ recipeTable = <<>> /\ saveRequest = Pending /\ saveFlashed = <<>>
    /\ QIdle /\ IIdle /\ SIdle /\ CIdle /\ XIdle /\ KIdle /\ UIdle /\ WIdle

\* save_recipe from db.session.commit() on: the commit succeeds, or an
\* exception rolls the session back; a request that returns before the commit
\* leaves the committed rows as they were
Commit(id, saved, ok) ==
    IF ~ok THEN saveFlashed' = Flash("Error saving recipe") /\ UNCHANGED recipeTable
    ELSE /\ saveFlashed' = Flash(saved.flash)
         /\ IF ~saved.commit THEN UNCHANGED recipeTable
            ELSE IF id = 0 THEN recipeTable' = Append(recipeTable, saved.recipe)
            ELSE recipeTable' = [recipeTable EXCEPT ![id] = saved.recipe]

\* POST /recipes/new: save_recipe(None)
NewRecipe ==
    /\ Len(recipeTable) < MaxRecipes
    /\ \E form \in SaveForms, ok \in BOOLEAN :
           /\ Commit(0, SaveRecipe(form), ok)
           /\ saveRequest' = Ret(<<0, form>>)
    /\ UNCHANGED <<qvars, ivars, svars, cvars, xvars, kvars, uvars, wvars>>

\* POST /recipes/<id>/edit: save_recipe(recipe)
EditRecipe ==
    /\ \E id \in 1..Len(recipeTable), form \in SaveForms, ok \in BOOLEAN :
           /\ Commit(id, SaveRecipe(form), ok)
           /\ saveRequest' = Ret(<<id, form>>)
    /\ UNCHANGED <<qvars, ivars, svars, cvars, xvars, kvars, uvars, wvars>>

VNext == NewRecipe \/ EditRecipe

SpecSave == VInit /\ [][VNext]_vars

----------------------------------------------------------------------------
(* Claims about parse_quantity, under SpecQuantity *)

\* the fraction table as the specification states it
NamedFractions ==
    << <<<<"1", "/", "8">>, <<125, 1000>> >>, <<<<"1", "/", "4">>, <<25, 100>> >>, <<<<"1", "/", "3">>, <<33, 100>> >>,
       <<<<"3", "/", "8">>, <<375, 1000>> >>, <<<<"1", "/", "2">>, <<5, 10>> >>, <<<<"5", "/", "8">>, <<625, 1000>> >>,
       <<<<"2", "/", "3">>, <<67, 100>> >>, <<<<"3", "/", "4">>, <<75, 100>> >>, <<<<"7", "/", "8">>, <<875, 1000>> >> >>

\* C6: for every token of the named fraction table, the CSV codec's
\* parse_quantity returns exactly the table value; 1/3 gives 0.33 and 2/3
\* gives 0.67, not the quotient.
C6_NamedFractionsExact ==
    \A i \in 1..Len(NamedFractions) :
        (qtext = NamedFractions[i][1] /\ qcsv # Pending) =>
            /\ qcsv.k = "ret"
            /\ qcsv.v[1] * NamedFractions[i][2][2] = NamedFractions[i][2][1] * qcsv.v[2]
            /\ qcsv.v # None

C6_Witness ==
    /\ qtext = <<"1", "/", "3">>
    /\ qcsv.k = "ret"
    /\ qcsv.v = <<33, 100>>

IsBlank(s) == \A i \in 1..Len(s) : s[i] \in WS

AllZeros(s) == s # <<>> /\ \A i \in 1..Len(s) : s[i] = "0"

HasLetter(s) == \E i \in 1..Len(s) : ~IsDigit(s[i]) /\ s[i] \notin (WS \cup {".", "/"})

\* an "a/b" token whose denominator is zero or whose parts are not numbers
NoDigit(s) == \A i \in 1..Len(s) : ~IsDigit(s[i])

BadQuotientToken(s) ==
    /\ \A i \in 1..Len(s) : s[i] \notin WS
    /\ Cardinality({i \in 1..Len(s) : s[i] = "/"}) = 1
    /\ LET i == CHOOSE j \in 1..Len(s) : s[j] = "/"
           a == SubSeq(s, 1, i - 1)
           b == SubSeq(s, i + 1, Len(s))
       IN  \/ AllZeros(b)
           \/ a = <<>> \/ b = <<>>
           \/ HasLetter(a) \/ HasLetter(b)

\* C7: the CSV codec's parse_quantity never raises; it returns a number or
\* absent, and absent for empty or whitespace-only input, for non-numeric text
\* (text without a digit, such as "abc") and for an a/b token with a zero
\* denominator or non-numeric parts.
C7_ParseQuantityNeverRaises ==
    qcsv # Pending =>
        /\ qcsv.k = "ret"
        /\ (IsBlank(qtext) \/ NoDigit(qtext) \/ BadQuotientToken(qtext)) => qcsv.v = None

C7_Witness ==
    /\ qtext = <<"1", "/", "0">>
    /\ qcsv.k = "ret"
    /\ qcsv.v = None

\* C8: the form's parse_quantity and the CSV codec's parse_quantity return the
\* same value for every input, the eighths and mixed numbers on them included.
C8_ParsersAgree ==
    (qcsv # Pending /\ qform # Pending) => qcsv.k = qform.k /\ qcsv.v = qform.v

\* the words of a two-word argument of parse_quantity
QWords == SplitWords(qtext)

IsDigitString(s) == s # <<>> /\ \A i \in 1..Len(s) : IsDigit(s[i])

\* an a/b pattern: digits, a slash, digits that are not all zero
IsQuotientPattern(s) ==
    /\ Cardinality({i \in 1..Len(s) : s[i] = "/"}) = 1
    /\ IsDigitString(SplitOnce(s, "/")[1])
    /\ IsDigitString(SplitOnce(s, "/")[2])
    /\ ~AllZeros(SplitOnce(s, "/")[2])

IsFractionToken(s) == DictHas(NamedFractions, s) \/ IsQuotientPattern(s)

FractionValue(s) ==
    IF DictHas(NamedFractions, s)
    THEN Rat(DictGet(NamedFractions, s, <<0, 1>>)[1], DictGet(NamedFractions, s, <<0, 1>>)[2])
    ELSE Rat(DigitsVal(SplitOnce(s, "/")[1]), DigitsVal(SplitOnce(s, "/")[2]))

MixedNumberApplies == PyFloat(QWords[1]).k = "ret" /\ IsFractionToken(QWords[2])

\* C21: for a two-word argument "W F" the CSV codec's parse_quantity returns
\* W + value(F) when W is a number and F is a fraction token (named or a/b),
\* and absent when F is not a fraction token ("1 2", "1 abc") or W is not a
\* number.
C21_MixedNumberOnlyWithFraction ==
    (qcsv # Pending /\ Len(QWords) = 2) =>
        IF MixedNumberApplies
        THEN qcsv = Ret(RatAdd(PyFloat(QWords[1]).v, FractionValue(QWords[2])))
        ELSE qcsv = Ret(None)

----------------------------------------------------------------------------
(* Claims about the ingredient parsers, under SpecIngredient *)

\* C4: every ingredient parse_single_ingredient and parse_ingredients return
\* has a name that is non-empty after trimming, for every non-blank item,
\* the items that are only a preparation clause or only the optional marker
\* included.
C4_NameNeverEmpty ==
    /\ (ising # Pending /\ ~IsBlank(itext)) =>
            ising.k = "ret" /\ Strip(ising.v.name) # <<>>
    /\ ilist # Pending =>
            ilist.k = "ret" /\ \A i \in 1..Len(ilist.v) : Strip(ilist.v[i].name) # <<>>

\* the line is <quantity run> <unit> <name>, the spaces at i and j
IsQuantityUnitName(text, i, j) ==
    /\ 1 < i /\ i + 1 < j /\ j < Len(text)
    /\ text[i] = " " /\ text[j] = " "
    /\ \A x \in 1..(i - 1) : IsDigit(text[x]) \/ text[x] \in {" ", ".", "/"}
    /\ text[1] # " " /\ text[i - 1] # " "
    /\ \E u \in 1..Len(Units) : Lower(SubSeq(text, i + 1, j - 1)) = Lower(Units[u])
    /\ Strip(SubSeq(text, j + 1, Len(text))) # <<>>
    /\ text[Len(text)] \notin WS
    /\ ~HasChar(text, ",")
    /\ ~HasChar(text, "\n")
    /\ ~Contains(Lower(text), OptionalMarker)

\* C5: for a line "<quantity run> <unit> <name>" with the unit in the
\* vocabulary in any letter case, no comma and no optional marker,
\* parse_single_ingredient returns quantity = parse_quantity(quantity run),
\* unit = the unit lower-cased, name = the trimmed remainder, no preparation
\* and is_optional false; "2 cups flour" gives (2, "cups", "flour") and
\* "1/2 tsp salt" gives (0.5, "tsp", "salt").
C5_QuantityUnitName ==
    ising # Pending =>
        /\ \A i, j \in 1..Len(itext) :
              IsQuantityUnitName(itext, i, j) =>
                  /\ ising.k = "ret"
                  /\ ising.v.quantity = CsvParseQuantity(SubSeq(itext, 1, i - 1)).v
                  /\ ising.v.unit = Lower(SubSeq(itext, i + 1, j - 1))
                  /\ ising.v.name = Strip(SubSeq(itext, j + 1, Len(itext)))
                  /\ ising.v.preparation = None
                  /\ ising.v.is_optional = FALSE
        /\ itext = <<"2", " ", "c", "u", "p", "s", " ", "f", "l", "o", "u", "r">> =>
              /\ ising.v.quantity = <<2, 1>>
              /\ ising.v.unit = <<"c", "u", "p", "s">>
              /\ ising.v.name = <<"f", "l", "o", "u", "r">>
        /\ itext = <<"1", "/", "2", " ", "t", "s", "p", " ", "s", "a", "l", "t">> =>
              /\ ising.v.quantity = <<1, 2>>
              /\ ising.v.unit = <<"t", "s", "p">>
              /\ ising.v.name = <<"s", "a", "l", "t">>

C5_Witness ==
    /\ itext = <<"1", " ", "1", "/", "2", " ", "C", "u", "p", " ", "c", "a", "k", "e">>
    /\ ising.k = "ret"
    /\ ising.v.quantity = <<3, 2>>
    /\ ising.v.unit = <<"c", "u", "p">>
    /\ ising.v.name = <<"c", "a", "k", "e">>

HasOptionalMarker(s) == s # None /\ Contains(Lower(s), OptionalMarker)

\* C22: parse_single_ingredient sets is_optional exactly when the input has
\* "(optional)" in any letter case, and then neither name nor preparation of
\* the result has the marker; "2 cups flour (optional)" gives quantity 2, unit
\* "cups", name "flour", is_optional true.
C22_OptionalMarkerRemoved ==
    ising # Pending =>
        /\ ising.k = "ret"
        /\ ising.v.is_optional = HasOptionalMarker(itext)
        /\ ising.v.is_optional =>
               ~HasOptionalMarker(ising.v.name) /\ ~HasOptionalMarker(ising.v.preparation)
        /\ itext = <<"2", " ", "c", "u", "p", "s", " ", "f", "l", "o", "u", "r", " ", "(", "o", "p", "t", "i", "o", "n", "a", "l", ")">> =>
               /\ ising.v.quantity = <<2, 1>>
               /\ ising.v.unit = <<"c", "u", "p", "s">>
               /\ ising.v.name = <<"f", "l", "o", "u", "r">>

\* the marker occurs inside another occurrence's remains
MarkerNested == Contains(Lower(SubOptional(Strip(itext))), OptionalMarker)

\* the working text: the line without the optional marker, up to the first comma
WithoutMarker(s) == IF HasOptionalMarker(s) THEN SubOptional(s) ELSE s

BeforeComma(s) == IF HasChar(s, ",") THEN Strip(SplitOnce(s, ",")[1]) ELSE s

WorkingText == BeforeComma(WithoutMarker(Strip(itext)))

AllInQuantityClass(s) == \A i \in 1..Len(s) : InQuantityClass(s[i])

IsUnitWord(s) == \E u \in 1..Len(Units) : Lower(s) = Lower(Units[u])

\* text[1..g] is a quantity run and text[g+1..a-1] a unit, before whitespace at a
QuantityThenUnit(text, g, a) ==
    /\ g < a /\ a < Len(text) /\ text[a] \in WS
    /\ AllInQuantityClass(SubSeq(text, 1, g))
    /\ IsUnitWord(SubSeq(text, g + 1, a - 1))

\* the quantity/unit/name pattern matches: an optional quantity run and an
\* optional unit, then whitespace, then at least one character
PatternMatches(text) ==
    \E a \in 1..(Len(text) - 1) :
        /\ text[a] \in WS
        /\ \/ AllInQuantityClass(SubSeq(text, 1, a - 1))
           \/ \E g \in 0..(a - 1) : QuantityThenUnit(text, g, a)

\* C23: when the working text does not match the pattern,
\* parse_single_ingredient returns it verbatim as name, with quantity and unit
\* absent; "salt cups" gives name "salt cups", "salt, melted" gives name "salt"
\* and preparation "melted".
NameOnly(text) ==
    ~PatternMatches(text) =>
        /\ ising.k = "ret"
        /\ ising.v.name = text
        /\ ising.v.quantity = None
        /\ ising.v.unit = None

C23_NoMatchIsName ==
    ising # Pending =>
        /\ NameOnly(WorkingText)
        /\ itext = <<"s", "a", "l", "t", " ", "c", "u", "p", "s">> => ising.v.name = <<"s", "a", "l", "t", " ", "c", "u", "p", "s">>
        /\ itext = <<"s", "a", "l", "t", ",", " ", "m", "e", "l", "t", "e", "d">> =>
               ising.v.name = <<"s", "a", "l", "t">> /\ ising.v.preparation = <<"m", "e", "l", "t", "e", "d">>

C23_Witness ==
    /\ itext = <<"s", "a", "l", "t", " ", "c", "u", "p", "s", ",", " ", "m", "e", "l", "t", "e", "d">>
    /\ ising.k = "ret"
    /\ ising.v.name = <<"s", "a", "l", "t", " ", "c", "u", "p", "s">>
    /\ ising.v.quantity = None /\ ising.v.unit = None
    /\ ising.v.preparation = <<"m", "e", "l", "t", "e", "d">>

\* the list of units in reverse order: every pair of units changes places
ReversedUnits == [u \in 1..Len(LowerUnits) |-> LowerUnits[Len(LowerUnits) + 1 - u]]

\* C24: the unit of the result is a whole unit of the list, found before
\* whitespace after the quantity run; a word that begins with a unit is not
\* split ("2 cupcake"), a longer unit is not cut to a shorter one listed
\* before it ("2 lbs flour" gives "lbs"), and the match is the same with the
\* list in the opposite order.
\* the unit of the result is the unit word of the text
UnitIsWholeWord(text) ==
    ising.v.unit # None =>
        \E g \in 0..Len(text) : \E a \in (g + 1)..Len(text) :
            /\ ising.v.unit = Lower(SubSeq(text, g + 1, a - 1))
            /\ QuantityThenUnit(text, g, a)

SameInAnyOrder(text) == IngredientMatchWith(ReversedUnits, text) = IngredientMatch(text)

C24_WholeUnitAnyOrder ==
    (ising # Pending /\ ising.k = "ret") =>
        /\ UnitIsWholeWord(WorkingText)
        /\ SameInAnyOrder(WorkingText)
        /\ itext = <<"2", " ", "c", "u", "p", "c", "a", "k", "e">> => ising.v.unit = None /\ ising.v.name = <<"c", "u", "p", "c", "a", "k", "e">>
        /\ itext = <<"s", "a", "l", "t", " ", "c", "u", "p", "s">> => ising.v.unit = None
        /\ itext = <<"2", " ", "l", "b", "s", " ", "f", "l", "o", "u", "r">> => ising.v.unit = <<"l", "b", "s">>

C24_Witness ==
    /\ itext = <<"2", " ", "l", "b", "s", " ", "f", "l", "o", "u", "r">>
    /\ ising.k = "ret"
    /\ ising.v.unit = <<"l", "b", "s">>
    /\ ising.v.name = <<"f", "l", "o", "u", "r">>

----------------------------------------------------------------------------
(* Claims about parse_sections, under SpecSections *)

\* the section names as written, ingredients_str first
NamesWritten ==
    [i \in 1..Len(sMarkers.ingr) |-> sMarkers.ingr[i][1]]
        \o [i \in 1..Len(sMarkers.instr) |-> sMarkers.instr[i][1]]

FirstSeen(name) == SetMin({i \in 1..Len(NamesWritten) : NamesWritten[i] = name})

\* the instructions after the last marker with this name are not blank
Survives(name) ==
    \E i \in 1..Len(sMarkers.instr) :
        /\ sMarkers.instr[i][1] = name
        /\ \A j \in (i + 1)..Len(sMarkers.instr) : sMarkers.instr[j][1] # name
        /\ ~IsBlank(sMarkers.instr[i][2])

\* C9: parse_sections returns the surviving sections in the order their names
\* are first seen, the markers of the ingredients text scanned before those of
\* the instructions text, and each section has the ingredients parsed from
\* the body after its marker in the ingredients text.  The example with
\* [Shell] and [Filling] gives "Shell" then "Filling" with 2 and 1 ingredients.
C9_SectionsInFirstSeenOrder ==
    sres # Pending =>
        /\ sres.k = "ret"
        /\ \A a, b \in 1..Len(sres.v) :
              a < b => FirstSeen(sres.v[a].name) < FirstSeen(sres.v[b].name)
        /\ {sres.v[i].name : i \in 1..Len(sres.v)}
              = {NamesWritten[i] : i \in {j \in 1..Len(NamesWritten) : Survives(NamesWritten[j])}}
        /\ \A i \in 1..Len(sres.v) :
              \/ \E k \in 1..Len(sMarkers.ingr) :
                    /\ sMarkers.ingr[k][1] = sres.v[i].name
                    /\ sres.v[i].ingredients = ParseIngredients(sMarkers.ingr[k][2]).v
              \/ /\ \A k \in 1..Len(sMarkers.ingr) : sMarkers.ingr[k][1] # sres.v[i].name
                 /\ sres.v[i].ingredients = <<>>
        /\ sMarkers = ExampleMarkers =>
              /\ Len(sres.v) = 2
              /\ sres.v[1].name = <<"S", "h", "e", "l", "l">> /\ Len(sres.v[1].ingredients) = 2
              /\ sres.v[2].name = <<"F", "i", "l", "l", "i", "n", "g">> /\ Len(sres.v[2].ingredients) = 1

C9_Witness ==
    /\ sMarkers = ExampleMarkers
    /\ sres.k = "ret"
    /\ Len(sres.v) = 2
    /\ sres.v[1].ingredients[2].name = <<"b", "u", "t", "t", "e", "r">>

\* C10: every section parse_sections returns has instructions that are
\* non-empty after trimming; a section named in the ingredients text whose
\* instructions are missing or blank is not in the result, even when it has
\* ingredients.
C10_SectionsHaveInstructions ==
    sres # Pending =>
        /\ sres.k = "ret"
        /\ \A i \in 1..Len(sres.v) : Strip(sres.v[i].instructions) # <<>>
        /\ \A k \in 1..Len(sMarkers.ingr) :
              (\A j \in 1..Len(sMarkers.instr) :
                    sMarkers.instr[j][1] = sMarkers.ingr[k][1] => IsBlank(sMarkers.instr[j][2]))
                => \A i \in 1..Len(sres.v) : sres.v[i].name # sMarkers.ingr[k][1]

C10_Witness ==
    /\ sMarkers.ingr = << <<<<"A">>, <<"x", "|", "2", " ", "g", " ", "y">>>> >>
    /\ sMarkers.instr = << <<<<"B">>, <<"s">>>>, <<<<"A">>, <<" ">>>> >>
    /\ sres.k = "ret"
    /\ Len(sres.v) = 1
    /\ sres.v[1].name = <<"B">>

----------------------------------------------------------------------------
(* Claims about parse_recipe_csv, under SpecCsv *)

\* the data rows of the content: the lines after the header that are not empty
DataRows == RecordLines(csvLines, 0)

\* C1: parse_recipe_csv processes every data row whatever happened to earlier
\* rows, and each data row gives exactly one recipe or one error: when the
\* call is over, len(recipes) + len(errors) is the number of data rows.
C1_OneEntryPerDataRow ==
    csvpc \in {"done", "raised"} => Len(recipes) + Len(errors) = Cardinality(DataRows)

\* C2: the row number of every error is the 1-based position in the content
\* of the line it is about, the header being line 1.
C2_ErrorRowIsPhysicalLine ==
    \A i \in 1..Len(errors) : errors[i].row = errLines[i]

\* C3: parse_recipe_csv never raises to its caller, also on a row that the
\* CSV reader rejects.
C3_NeverRaises == csvpc # "raised"

\* the row read from the line of content that recipes[i] comes from
RowOfRecipe(i) == DictRow(csvLines[recLines[i] - 1])

\* a "[", at least one character, and a "]" after them
HasBracketMarker(s) ==
    s # None /\ \E i \in 1..Len(s) : \E j \in (i + 2)..Len(s) : s[i] = "[" /\ s[j] = "]"

FlatKeys == {"ingredients", "instructions"}

\* C11: every recipe of parse_recipe_csv has one of two shapes, chosen by
\* has_sections: has_sections is true exactly when the ingredients or the
\* instructions cell of its row has a bracket marker, and the recipe then has
\* a non-empty sections list and neither ingredients nor instructions;
\* otherwise it has ingredients and non-blank instructions and no sections.
C11_TwoShapes ==
    \A i \in 1..Len(recipes) :
        /\ recipes[i].has_sections
              <=> (HasBracketMarker(RowOfRecipe(i).ingredients)
                      \/ HasBracketMarker(RowOfRecipe(i).instructions))
        /\ recipes[i].has_sections =>
              /\ "sections" \in DOMAIN recipes[i]
              /\ recipes[i].sections # <<>>
              /\ FlatKeys \cap DOMAIN recipes[i] = {}
        /\ ~recipes[i].has_sections =>
              /\ FlatKeys \subseteq DOMAIN recipes[i]
              /\ ~IsBlank(recipes[i].instructions)
              /\ "sections" \notin DOMAIN recipes[i]

C11_Witness ==
    /\ Len(recipes) = 2
    /\ recipes[1].has_sections
    /\ ~recipes[2].has_sections
    /\ recipes[2].ingredients # <<>>

\* the text of a cell, empty for a cell the row does not have
CellText(c) == IF c = None THEN <<>> ELSE c

\* the condition under which the claim says a row gives a recipe
YieldsRecipe(row) ==
    /\ ~IsBlank(CellText(row.title))
    /\ IF HasBracketMarker(row.ingredients) \/ HasBracketMarker(row.instructions)
       THEN ParseSections(CellText(row.ingredients), Strip(CellText(row.instructions))).v # <<>>
       ELSE ~IsBlank(CellText(row.instructions))

ValidationErrors ==
    {"Title is required", "Instructions are required",
     "Sectioned recipe must have at least one section with instructions"}

\* C20: a data row the loop has processed gives a recipe if and only if its
\* title is not blank and either it has no bracket marker and its
\* instructions are not blank, or it has a bracket marker and a section with
\* instructions survives; every other row gives exactly one error, which is
\* one of the three validation errors.
C20_RecipeOrValidationError ==
    \A p \in 1..csvPos :
        (p \in DataRows /\ ~ReaderRejects(csvLines[p])) =>
            IF YieldsRecipe(DictRow(csvLines[p]))
            THEN /\ Cardinality({i \in 1..Len(recLines) : recLines[i] = p + 1}) = 1
                 /\ \A i \in 1..Len(errLines) : errLines[i] # p + 1
            ELSE /\ \A i \in 1..Len(recLines) : recLines[i] # p + 1
                 /\ Cardinality({i \in 1..Len(errLines) : errLines[i] = p + 1}) = 1
                 /\ \A i \in 1..Len(errLines) :
                        errLines[i] = p + 1 => errors[i].msg \in ValidationErrors

NumericFields == {"prep_time_minutes", "cook_time_minutes", "rest_time_minutes", "servings"}

\* the value of a key of a recipe, None when the recipe does not have the key
FieldOf(recipe, key) == IF key \in DOMAIN recipe THEN recipe[key] ELSE None

\* C13: in every recipe, each of prep_time_minutes, cook_time_minutes,
\* rest_time_minutes and servings is the integer written in the row's column
\* when that text is an integer, and absent when it is blank or not an integer.
C13_NumericFieldsDecoded ==
    \A i \in 1..Len(recipes) : \A key \in NumericFields :
        FieldOf(recipes[i], key) = ParseInt(RowOfRecipe(i)[key])

TimeFields == {"prep_time_minutes", "cook_time_minutes", "rest_time_minutes"}

IsNonNegativeInt(v) == Len(v) = 2 /\ v[1] = "int" /\ v[2] >= 0

\* C25: in every recipe of parse_recipe_csv each of prep_time_minutes,
\* cook_time_minutes and rest_time_minutes is absent or a non-negative
\* integer, whatever the column holds ("-5").
C25_TimesNonNegative ==
    \A i \in 1..Len(recipes) : \A key \in TimeFields :
        FieldOf(recipes[i], key) = None \/ IsNonNegativeInt(FieldOf(recipes[i], key))

\* the texts of a column outside its bracket markers
OutsideMarkers(col) ==
    {SubSeq(col, 1, FirstOr(MarkerStarts(col), Len(col) + 1) - 1)}
        \cup {SectionPairs(col)[k][2] : k \in 1..Len(SectionPairs(col))}

NonBlankItems(text) ==
    {Strip(SplitOn(text, "|")[k]) : k \in 1..Len(SplitOn(text, "|"))} \ {<<>>}

\* the non-blank pipe-delimited items written in an ingredients column
WrittenItems(col) ==
    IF col = None THEN {} ELSE UNION {NonBlankItems(text) : text \in OutsideMarkers(col)}

\* the ingredients of a recipe, of its flat list or of its sections
IngredientsOf(recipe) ==
    IF recipe.has_sections
    THEN UNION {{recipe.sections[s].ingredients[k] :
                    k \in 1..Len(recipe.sections[s].ingredients)} :
                s \in 1..Len(recipe.sections)}
    ELSE {recipe.ingredients[k] : k \in 1..Len(recipe.ingredients)}

ItemsKept(items, recipe) ==
    \A item \in items : ParseSingleIngredient(item).v \in IngredientsOf(recipe)

\* C26: in every recipe of parse_recipe_csv, each non-blank pipe-delimited
\* item of the row's ingredients column is an ingredient of the recipe, in its
\* flat list or in one of its sections.
C26_NoIngredientLost ==
    \A i \in 1..Len(recipes) :
        ItemsKept(WrittenItems(RowOfRecipe(i).ingredients), recipes[i])

----------------------------------------------------------------------------
(* Claims about create_csv_export, under SpecExport *)

\* C12: when the stored recipe is unsectioned, parse_recipe_csv on its export
\* gives a recipe with the same ingredients (quantity, unit, name,
\* preparation and is_optional of each item, in the same order) and the same
\* instructions.
C12_RoundTrip ==
    (xAgain # Pending /\ Len(xStored.v) = 1 /\ ~xStored.v[1].has_sections) =>
        /\ xAgain.k = "ret"
        /\ xAgain.v[1].k = "recipe"
        /\ ~xAgain.v[1].v.has_sections
        /\ xAgain.v[1].v.ingredients = xStored.v[1].ingredients
        /\ xAgain.v[1].v.instructions = xStored.v[1].instructions

\* the (name, number of ingredients) of each section, in order
SectionShape(sections) ==
    [i \in 1..Len(sections) |-> <<sections[i].name, Len(sections[i].ingredients)>>]

\* distinct bracket-free section names, every section with instructions
ExportableSections(sections) ==
    /\ \A i, j \in 1..Len(sections) : sections[i].name = sections[j].name => i = j
    /\ \A i \in 1..Len(sections) :
        /\ ~HasChar(sections[i].name, "[") /\ ~HasChar(sections[i].name, "]")
        /\ Truthy(sections[i].instructions)

SectionsKept(stored, again) ==
    /\ again.k = "ret"
    /\ Len(again.v) = 1
    /\ again.v[1].k = "recipe"
    /\ again.v[1].v.has_sections
    /\ SectionShape(again.v[1].v.sections) = SectionShape(stored.sections)

\* C27: for a stored sectioned recipe whose section names are distinct and
\* bracket-free and whose sections all have instructions, parse_recipe_csv on
\* the output of create_csv_export gives the same section names in the same
\* order, each with the same number of ingredients, also when a section has
\* no ingredients.
C27_SectionedRoundTrip ==
    (/\ xAgain # Pending
     /\ Len(xStored.v) = 1
     /\ xStored.v[1].has_sections
     /\ ExportableSections(xStored.v[1].sections)) =>
        SectionsKept(xStored.v[1], xAgain)

\* C14: the header create_csv_export writes is the twelve-column header of
\* the import template, with rest_time_minutes, for every list of recipes.
C14_ExportHeaderIsTemplate ==
    xCsv.k = "ret" => xCsv.v.header = TemplateHeader

----------------------------------------------------------------------------
(* Claims about the conversions, under SpecConversion *)

\* the entries of a table that a unit selects when letter case is ignored
EntriesFor(table, unit) ==
    IF unit = None THEN {}
    ELSE {i \in 1..Len(table) : Lower(table[i][1]) = Lower(unit)}

\* |r - v| <= num / den
Within(r, v, num, den) ==
    den * Abs(r[1] * v[2] - v[1] * r[2]) <= num * r[2] * v[2]

Passthrough(outcome, table) ==
    /\ kQty = None => outcome = Ret(<<None, kUnit>>)
    /\ (kQty # None /\ EntriesFor(table, kUnit) = {}) => outcome = Ret(<<kQty, kUnit>>)

KnownUsUnit == kQty # None /\ EntriesFor(Conversions, kUnit) # {}

\* C28: with a unit of the US table convert_to_metric is defined for every
\* numeric quantity: it does not raise, for quantity 0 it returns 0 of the
\* metric unit, and for a quantity that is zero or negative it never returns
\* a positive amount.
C28_DefinedForEveryQuantity ==
    (toMetric # Pending /\ KnownUsUnit) =>
        /\ toMetric.k = "ret"
        /\ kQty[1] = 0 =>
            \E i \in EntriesFor(Conversions, kUnit) :
                toMetric.v = <<<<0, 1>>, Conversions[i][2][1]>>
        /\ kQty[1] <= 0 => toMetric.v[1][1] <= 0

\* C15: for an absent quantity convert_to_metric and convert_to_us return
\* (absent, the unit as given); for a unit that is absent or not in their
\* table when letter case is ignored they return the quantity and the unit as
\* given; neither raises.
C15_PassthroughOnMissingData ==
    /\ toMetric # Pending => Passthrough(toMetric, Conversions)
    /\ toUs # Pending => Passthrough(toUs, MetricToUs)

C15_Witness ==
    /\ kQty = <<3, 1>> /\ kUnit = <<"b", "u", "s", "h", "e", "l">>
    /\ toMetric = Ret(<<<<3, 1>>, <<"b", "u", "s", "h", "e", "l">>>>)
    /\ toUs = Ret(<<<<3, 1>>, <<"b", "u", "s", "h", "e", "l">>>>)

\* the outcomes (smart_round_metric(q * factor, target), target) of an entry
SmartRoundedBy(entry) ==
    {IF r.k = "ret" THEN Ret(<<r.v, entry[2][1]>>) ELSE r :
        r \in SmartRound(RatMul(kQty, entry[2][2]), entry[2][1], FALSE)}

\* C16: for a positive quantity q and a unit of the US table in any letter
\* case, convert_to_metric returns (smart_round_metric(q * factor, target),
\* target) for the factor and target of the unit's entry; (1, "cup") gives
\* (250, "ml").
C16_ToMetricSmartRounds ==
    (toMetric # Pending /\ kQty # None) =>
        /\ \A i \in EntriesFor(Conversions, kUnit) :
               kQty[1] > 0 => toMetric \in SmartRoundedBy(Conversions[i])
        /\ (kQty = <<1, 1>> /\ kUnit = <<"c", "u", "p">>) => toMetric = Ret(<<<<250, 1>>, <<"m", "l">>>>)

C16_Witness ==
    /\ kQty = <<3, 1>> /\ kUnit = <<"C", "U", "P", "S">>
    /\ toMetric = Ret(<<<<750, 1>>, <<"m", "l">>>>)

Thresholds(unit) == DictGet(MetricRoundValues, unit, <<>>)

ClosestTo(v, thresholds) ==
    {t \in {thresholds[i] : i \in 1..Len(thresholds)} :
        \A i \in 1..Len(thresholds) : NoFarther(t, thresholds[i], v)}

\* |t - v| / v <= 0.15, for v > 0
WithinFifteenPercent(t, v) == Within(t, v, 3 * v[1], 20 * v[2])

IsMultipleOf(r, num, den) == (r[1] * den) % (num * r[2]) = 0

\* r is v rounded to the nearest multiple of num / den
RoundedTo(r, v, num, den) == IsMultipleOf(r, num, den) /\ Within(r, v, num, 2 * den)

CoarselyRounded(r, v) ==
    IF RatLeq(<<100, 1>>, v) THEN RoundedTo(r, v, 5, 1)
    ELSE IF RatLeq(<<10, 1>>, v) THEN RoundedTo(r, v, 1, 1)
    ELSE RoundedTo(r, v, 1, 10)

\* C17: for a positive value v and a unit with a threshold list,
\* smart_round_metric returns the closest threshold when it is within 15% of
\* v, and otherwise v rounded to the nearest multiple of 5 (v >= 100), the
\* nearest integer (10 <= v < 100) or one decimal place (v < 10); for a unit
\* without a threshold list it returns v rounded to one decimal place.
C17_SmartRound ==
    (smartRounded # Pending /\ kQty # None) =>
        IF DictHas(MetricRoundValues, kUnit)
        THEN kQty[1] > 0 =>
                 /\ smartRounded.k = "ret"
                 /\ \E t \in ClosestTo(kQty, Thresholds(kUnit)) :
                        IF WithinFifteenPercent(t, kQty) THEN smartRounded.v = t
                        ELSE CoarselyRounded(smartRounded.v, kQty)
        ELSE smartRounded.k = "ret" /\ RoundedTo(smartRounded.v, kQty, 1, 10)

C17_Witness ==
    /\ kQty = <<600, 1>> /\ kUnit = <<"m", "l">>
    /\ smartRounded = Ret(<<600, 1>>)

\* C18: for a quantity q and a unit of the reverse table in any letter case,
\* convert_to_us returns (q * factor rounded to two decimal places, the US
\* unit of the unit's entry); (1, "L") gives (1.06, "quart").
C18_ToUsTwoDecimals ==
    (toUs # Pending /\ kQty # None) =>
        \A i \in EntriesFor(MetricToUs, kUnit) :
            /\ toUs.k = "ret"
            /\ toUs.v[2] = MetricToUs[i][2][1]
            /\ RoundedTo(toUs.v[1], RatMul(kQty, MetricToUs[i][2][2]), 1, 100)

----------------------------------------------------------------------------
(* Claims about upload and confirm_import, under SpecImport *)

\* the last upload decoded its file to errors and no recipe
OnlyErrors == decoded.k = "ret" /\ decoded.v.errors # <<>> /\ decoded.v.recipes = <<>>

\* C19: an upload whose decoding yields errors and no recipe reports all the
\* errors, and a confirm_import that follows it commits no recipe, whatever
\* uploads came before.
C19_OnlyErrorsImportNothing ==
    OnlyErrors =>
        /\ lastOp = "upload" => flashed = decoded.v.errors
        /\ lastOp = "confirm" => imported = 0

----------------------------------------------------------------------------
(* Claims about save_recipe, under SpecSave *)

SectionedWellFormed(recipe) ==
    /\ Len(recipe.sections) >= 1
    /\ \A i \in 1..Len(recipe.sections) : Truthy(recipe.sections[i].instructions)
    /\ recipe.instructions = None
    /\ recipe.ingredients = <<>>

SimpleWellFormed(recipe) ==
    Truthy(recipe.instructions) /\ recipe.sections = <<>>

\* C29: after any sequence of committed save_recipe requests, creating or
\* editing and switching between the two modes, every stored recipe with
\* has_sections has at least one stored section, every stored section has
\* non-empty instructions and the recipe has no flat instructions or
\* ingredients; every stored recipe without has_sections has non-empty
\* instructions and no sections.
C29_StoredRecipesWellFormed ==
    \A id \in 1..Len(recipeTable) :
        IF recipeTable[id].has_sections
        THEN SectionedWellFormed(recipeTable[id])
        ELSE SimpleWellFormed(recipeTable[id])

----------------------------------------------------------------------------
(* Claims about concurrent confirm_import requests, under SpecConfirm *)

\* request r has committed the recipes it loaded
Persisted(r) == confirms[r].pc \in {"committed", "removing", "imported"}

\* r1 and r2 read the preview of the same upload
SamePreview(r1, r2) == confirms[r1].batch = confirms[r2].batch

\* C30: each uploaded batch is imported at most once: no two confirm_import
\* requests of the session, one after the other or interleaved, both persist
\* the recipes of the same preview.
C30_BatchImportedOnce ==
    \A r1, r2 \in 1..MaxConfirms :
        (Persisted(r1) /\ Persisted(r2) /\ SamePreview(r1, r2)) => r1 = r2

====
